---- MODULE Spec2Model ----
(***************************************************************************)
(* ThisNewsNow: the nonsense injector (agents/nonsense.py) with its model   *)
(* cache, fragment generator and samplers, the writer's spoken-word        *)
(* counter and call of the injector (agents/writer.py) and the pilot batch *)
(* loop (main.py).                                                         *)
(*                                                                         *)
(* Text is modelled character by character: a string is a sequence of      *)
(* one-character strings, and every regular expression of the source is    *)
(* an operator over such sequences.  random.random() is a draw u/Grid with *)
(* u in 0..Grid-1; every draw is an input of the action that consumes it.  *)
(***************************************************************************)
EXTENDS Integers, Sequences, FiniteSets, TLC

VARIABLES
    model,      \* nonsense._model: the cached Markov model, or NoModel
    file,       \* markov_model.json on disk: "ok", "missing" or "corrupt"
    reads,      \* number of times markov_model.json has been opened
    call,       \* the last inject_nonsense call: its inputs, return and trace
    pilot,      \* run_pilot's batch loop: position, stories so far, outcome
    loader,     \* the threads inside _load_model: position, object obtained
    writer,     \* the last generate_script call: its replies and its result
    gen,        \* _run_generator's loop: position, counter, stories made
    feed,       \* dashboard recent_stories and the pushes made so far
    ctl,        \* generator_thread, generator_stop_event, threads, requests
    poll        \* _poll_video_status: attempt, last response, return value

vars == <<model, file, reads, call, pilot, loader, writer, gen, feed, ctl, poll>>

----------------------------------------------------------------------------
(* Bounds of the model *)

\* random.random() is modelled as u/Grid for u in 0..Grid-1
Grid == 3

\* longest plain script of the enumerated family, in words
MaxWords == 17

\* largest batch size of run_pilot that is explored
MaxCount == 2

\* number of threads of one process that call into the injector
MaxThreads == 2

\* number of calls of _load_model each thread makes
MaxCalls == 2

\* the generator threads ever created in a run
MaxGen == 2

\* the requests the server handles at the same time
MaxReqs == 2

\* the pushes to the dashboard made in a run
MaxPushes == 3

\* the stories one generator thread works on in a run
MaxStories == 7

----------------------------------------------------------------------------
(* Characters and Python's string primitives *)

Upper == {"A", "B", "C", "D", "E", "F", "G", "H", "I", "J", "K", "L", "M",
          "N", "O", "P", "Q", "R", "S", "T", "U", "V", "W", "X", "Y", "Z"}

\* the character class [A-Z_-] of the directive pattern
TagNameChar == Upper \cup {"_", "-"}

\* the characters \s matches and str.split() splits on
Whitespace == {" ", "\n", "\t"}

NoneVal == <<"None">>

RECURSIVE SkipName(_, _)
\* [A-Z_-]+ from index i: the first index that is not a tag-name character
SkipName(s, i) ==
    IF i <= Len(s) /\ s[i] \in TagNameChar THEN SkipName(s, i + 1) ELSE i

RECURSIVE FindClose(_, _)
\* [^\]]+ from index i: the first index holding "]" (Len(s)+1 when none)
FindClose(s, i) ==
    IF i <= Len(s) /\ s[i] # "]" THEN FindClose(s, i + 1) ELSE i

RECURSIVE SkipNonSpace(_, _)
\* \S+ from index i: the first index holding whitespace (Len(s)+1 when none)
SkipNonSpace(s, i) ==
    IF i <= Len(s) /\ s[i] \notin Whitespace THEN SkipNonSpace(s, i + 1) ELSE i

\* \[[A-Z_-]+:\s*[^\]]+\] tried at index i: the index of the closing
\* bracket of the match, 0 when the pattern does not match at i
MatchTag(s, i) ==
    IF i > Len(s) \/ s[i] # "[" THEN 0
    ELSE LET n == SkipName(s, i + 1) IN
         IF n = i + 1 \/ n > Len(s) \/ s[n] # ":" THEN 0
         ELSE LET c == FindClose(s, n + 1) IN
              IF c > Len(s) \/ c = n + 1 THEN 0 ELSE c

\* the scan of a text is evaluated in runs of this many steps, which keeps
\* the evaluation of a long script shallow; the tokens do not depend on it
ScanSteps == 16

RECURSIVE ScanRun(_, _, _)
\* n steps of re.findall(r'\[[A-Z_-]+:\s*[^\]]+\]|\S+', s) from index i (a
\* step is a directive, a word, or one whitespace character passed over):
\* the tokens found and the index the scan has reached
ScanRun(s, i, n) ==
    IF i > Len(s) \/ n = 0 THEN [tokens |-> <<>>, next |-> i]
    ELSE LET e == MatchTag(s, i) IN
         IF e > 0
         THEN LET r == ScanRun(s, e + 1, n - 1) IN
              [tokens |-> <<SubSeq(s, i, e)>> \o r.tokens, next |-> r.next]
         ELSE IF s[i] \in Whitespace THEN ScanRun(s, i + 1, n - 1)
         ELSE LET j == SkipNonSpace(s, i)
                  r == ScanRun(s, j, n - 1)
              IN  [tokens |-> <<SubSeq(s, i, j - 1)>> \o r.tokens, next |-> r.next]

RECURSIVE FindTokens(_, _)
\* re.findall(r'\[[A-Z_-]+:\s*[^\]]+\]|\S+', s) scanning from index i
FindTokens(s, i) ==
    IF i > Len(s) THEN <<>>
    ELSE LET r == ScanRun(s, i, ScanSteps) IN r.tokens \o FindTokens(s, r.next)

RECURSIVE FindTags(_, _)
\* re.findall(r'\[[A-Z_-]+:\s*[^\]]+\]', s) scanning from index i
FindTags(s, i) ==
    IF i > Len(s) THEN <<>>
    ELSE LET e == MatchTag(s, i) IN
         IF e > 0 THEN <<SubSeq(s, i, e)>> \o FindTags(s, e + 1)
         ELSE FindTags(s, i + 1)

RECURSIVE SubRun(_, _, _)
\* n steps of re.sub(r'\[[A-Z_-]+:\s*[^\]]+\]', '', s) from index i (a step
\* is a directive dropped or one character kept): the text kept and the index
\* the scan has reached
SubRun(s, i, n) ==
    IF i > Len(s) \/ n = 0 THEN [text |-> <<>>, next |-> i]
    ELSE LET e == MatchTag(s, i) IN
         IF e > 0 THEN SubRun(s, e + 1, n - 1)
         ELSE LET r == SubRun(s, i + 1, n - 1) IN
              [text |-> <<s[i]>> \o r.text, next |-> r.next]

RECURSIVE SubTags(_, _)
\* re.sub(r'\[[A-Z_-]+:\s*[^\]]+\]', '', s) scanning from index i
SubTags(s, i) ==
    IF i > Len(s) THEN <<>>
    ELSE LET r == SubRun(s, i, ScanSteps) IN r.text \o SubTags(s, r.next)

RECURSIVE SplitRun(_, _, _)
\* n steps of s.split() from index i (a step is a word or one whitespace
\* character passed over): the words found and the index the scan has reached
SplitRun(s, i, n) ==
    IF i > Len(s) \/ n = 0 THEN [words |-> <<>>, next |-> i]
    ELSE IF s[i] \in Whitespace THEN SplitRun(s, i + 1, n - 1)
    ELSE LET j == SkipNonSpace(s, i)
             r == SplitRun(s, j, n - 1)
         IN  [words |-> <<SubSeq(s, i, j - 1)>> \o r.words, next |-> r.next]

RECURSIVE Split(_, _)
\* s.split() scanning from index i: the maximal runs of non-whitespace
Split(s, i) ==
    IF i > Len(s) THEN <<>>
    ELSE LET r == SplitRun(s, i, ScanSteps) IN r.words \o Split(s, r.next)

RECURSIVE Join(_)
\* " ".join(words)
Join(words) ==
    IF words = <<>> THEN <<>>
    ELSE IF Len(words) = 1 THEN words[1]
    ELSE words[1] \o <<" ">> \o Join(Tail(words))

\* writer._count_spoken_words
CountSpokenWords(script_text) == Len(Split(SubTags(script_text, 1), 1))

----------------------------------------------------------------------------
(* Characters of the fragment side: str.lower, str.rstrip, \b and \w *)

LowerOf == [c \in Upper |->
    CASE c = "A" -> "a" [] c = "B" -> "b" [] c = "C" -> "c" [] c = "D" -> "d"
      [] c = "E" -> "e" [] c = "F" -> "f" [] c = "G" -> "g" [] c = "H" -> "h"
      [] c = "I" -> "i" [] c = "J" -> "j" [] c = "K" -> "k" [] c = "L" -> "l"
      [] c = "M" -> "m" [] c = "N" -> "n" [] c = "O" -> "o" [] c = "P" -> "p"
      [] c = "Q" -> "q" [] c = "R" -> "r" [] c = "S" -> "s" [] c = "T" -> "t"
      [] c = "U" -> "u" [] c = "V" -> "v" [] c = "W" -> "w" [] c = "X" -> "x"
      [] c = "Y" -> "y" [] c = "Z" -> "z"]

LowerLetter == {LowerOf[c] : c \in Upper}

Digit == {"0", "1", "2", "3", "4", "5", "6", "7", "8", "9"}

\* the characters \w matches; \b lies between a \w and a non-\w position
WordChar == Upper \cup LowerLetter \cup Digit \cup {"_"}

\* the one character U+2026 (horizontal ellipsis), which has no ASCII spelling
Ellipsis == "U+2026"

\* the characters next_word.rstrip(".!?" + U+2026) removes
EndPunct == {".", "!", "?", Ellipsis}

\* str.lower()
Lower(s) == [i \in 1..Len(s) |-> IF s[i] \in Upper THEN LowerOf[s[i]] ELSE s[i]]

RECURSIVE RStrip(_)
\* next_word.rstrip(".!?" + U+2026)
RStrip(w) ==
    IF w # <<>> /\ w[Len(w)] \in EndPunct THEN RStrip(SubSeq(w, 1, Len(w) - 1))
    ELSE w

\* does the pattern \b<pat>\b (re.IGNORECASE) match text at index i?  Every
\* pattern of the table starts and ends with a \w character.
MatchesAt(text, pat, i) ==
    /\ i + Len(pat) - 1 <= Len(text)
    /\ Lower(SubSeq(text, i, i + Len(pat) - 1)) = pat
    /\ (i = 1 \/ text[i - 1] \notin WordChar)
    /\ (i + Len(pat) - 1 = Len(text) \/ text[i + Len(pat)] \notin WordChar)

RECURSIVE ReSubFirstOnly(_, _, _, _)
\* a substitution that stops after its first match, as count=1 would
ReSubFirstOnly(text, pat, repl, i) ==
    IF i > Len(text) THEN <<>>
    ELSE IF MatchesAt(text, pat, i)
         THEN repl \o SubSeq(text, i + Len(pat), Len(text))
         ELSE <<text[i]>> \o ReSubFirstOnly(text, pat, repl, i + 1)

RECURSIVE ReSub(_, _, _, _)
\* re.sub(r"\b<pat>\b", repl, text, flags=re.IGNORECASE) scanning from index i
ReSub(text, pat, repl, i) ==
    IF i > Len(text) THEN <<>>
    ELSE IF MatchesAt(text, pat, i)
         THEN repl \o ReSub(text, pat, repl, i + Len(pat))
         ELSE <<text[i]>> \o ReSub(text, pat, repl, i + 1)

\* the words of the contraction table, spelled out
Wi == <<"i">>
Wm == <<"m">>
Wt == <<"t">>
Ws == <<"s">>
Wd == <<"d">>
Wve == <<"v", "e">>
Wll == <<"l", "l">>
Wre == <<"r", "e">>
Wdon == <<"d", "o", "n">>
Wcan == <<"c", "a", "n">>
Wwon == <<"w", "o", "n">>
Wdoesn == <<"d", "o", "e", "s", "n">>
Wisn == <<"i", "s", "n">>
Wdidn == <<"d", "i", "d", "n">>
Wwasn == <<"w", "a", "s", "n">>
Waren == <<"a", "r", "e", "n">>
Wweren == <<"w", "e", "r", "e", "n">>
Wshouldn == <<"s", "h", "o", "u", "l", "d", "n">>
Wcouldn == <<"c", "o", "u", "l", "d", "n">>
Wwouldn == <<"w", "o", "u", "l", "d", "n">>
Wwe == <<"w", "e">>
Wthey == <<"t", "h", "e", "y">>
Wyou == <<"y", "o", "u">>
Wit == <<"i", "t">>
Wthat == <<"t", "h", "a", "t">>
Wwhat == <<"w", "h", "a", "t">>
Wthere == <<"t", "h", "e", "r", "e">>
Where == <<"h", "e", "r", "e">>
Wthe == <<"t", "h", "e">>

\* the fixes table of _fix_contractions, in its order: <<first, second>>
\* stands for the rule (r"\bfirst second\b", "first'second")
Fixes == <<
    <<Wi, Wm>>, <<Wdon, Wt>>, <<Wcan, Wt>>, <<Wwon, Wt>>, <<Wdoesn, Wt>>,
    <<Wisn, Wt>>, <<Wdidn, Wt>>, <<Wwasn, Wt>>, <<Waren, Wt>>, <<Wweren, Wt>>,
    <<Wshouldn, Wt>>, <<Wcouldn, Wt>>, <<Wwouldn, Wt>>, <<Wi, Wve>>,
    <<Wi, Wll>>, <<Wi, Wd>>, <<Wwe, Wre>>, <<Wthey, Wre>>, <<Wyou, Wre>>,
    <<Wit, Ws>>, <<Wthat, Ws>>, <<Wwhat, Ws>>, <<Wthere, Ws>>, <<Where, Ws>> >>

RECURSIVE ApplyFixes(_, _)
\* the loop of _fix_contractions from rule k on
ApplyFixes(text, k) ==
    IF k > Len(Fixes) THEN text
    ELSE ApplyFixes(ReSub(text, Fixes[k][1] \o <<" ">> \o Fixes[k][2],
                          Fixes[k][1] \o <<"'">> \o Fixes[k][2], 1), k + 1)

\* nonsense._fix_contractions
FixContractions(text) == ApplyFixes(text, 1)

----------------------------------------------------------------------------
(* The Markov model and the weighted samplers *)

Wmilk == <<"m", "i", "l", "k">>
Wand == <<"a", "n", "d">>
Wsand == <<"s", "a", "n", "d">>
WI == <<"I">>

\* the composite key f"{w1}|{w2}" of the bigram table
Key2(w1, w2) == w1 \o <<"|">> \o w2

\* The contents of markov_model.json: "s" the starter pairs, "sw" their
\* weights, "c1" the unigram table and "c2" the bigram table, each entry a
\* list of [word, frequency] pairs.
MarkovFile ==
    [s  |-> << <<WI, Wm>>, <<Wdon, Wt>>, <<Wmilk, Wand>> >>,
     sw |-> <<1, 2, 2>>,
     c1 |-> (Wand :> << <<Wmilk, 1>> >>) @@
            (Wt :> << <<<<"!">>, 1>> >>) @@
            (Wm :> << <<Wmilk, 1>> >>) @@
            (Wsand :> << <<Wand, 2>>, <<Wsand \o <<"?">>, 1>> >>),
     c2 |-> (Key2(Wmilk, Wand) :> << <<Wsand \o <<".">>, 1>>, <<Wi, 2>> >>) @@
            (Key2(Wand, Wi) :> << <<Wm, 3>> >>)]

Wend == <<"e", "n", "d">>

\* A second model file: its starters carry the punctuation of the corpus,
\* as the continuations of both files do, and it has no bigram table entry.
MarkovPunct ==
    [s  |-> << <<Wthe, Wend \o <<".">>>>, <<Wsand, Wand>> >>,
     sw |-> <<1, 1>>,
     c1 |-> (Wand :> << <<Wmilk \o <<Ellipsis>>, 1>> >>),
     c2 |-> <<>>]

\* A model file that parses and holds no starter pair and no table entry.
MarkovEmpty == [s |-> <<>>, sw |-> <<>>, c1 |-> <<>>, c2 |-> <<>>]

\* the contents markov_model.json can have when it parses
ModelFiles == [ok |-> MarkovFile, punct |-> MarkovPunct, empty |-> MarkovEmpty]

RECURSIVE Sum(_)
\* sum(weights)
Sum(ws) == IF ws = <<>> THEN 0 ELSE Head(ws) + Sum(Tail(ws))

\* Does math.pow(w, 1.0 / temperature) raise OverflowError?  A temperature is
\* held as the integer k = 1/temperature.  math.pow overflows when the result
\* reaches 2^1024: for every w >= 2 that is the case once k >= 1024, and the
\* exponents below 1024 that the settings of this model use (1 and 2) never
\* overflow on its weights.
PowOverflows(w, k) == w >= 2 /\ k >= 1024

RECURSIVE Pow(_, _)
\* math.pow(w, k) for an integer weight w >= 0 and exponent k >= 1
Pow(w, k) == IF w <= 1 THEN w ELSE IF k = 1 THEN w ELSE w * Pow(w, k - 1)

\* the weights after temperature: as they are when temperature == 1.0,
\* math.pow(w, 1.0 / temperature) otherwise
Adjusted(weights, k) ==
    IF k = 1 THEN weights
    ELSE [i \in 1..Len(weights) |-> Pow(weights[i], k)]

AdjustRaises(weights, k) ==
    k # 1 /\ \E i \in 1..Len(weights) : PowOverflows(weights[i], k)

RECURSIVE RouletteStrict(_, _, _, _)
\* a loop that returns only once r has gone below zero
RouletteStrict(adj, r, i, den) ==
    IF i > Len(adj) THEN 0
    ELSE IF r - adj[i] * den < 0 THEN i
    ELSE RouletteStrict(adj, r - adj[i] * den, i + 1, den)

RECURSIVE RouletteOn(_, _, _, _)
\* the loop "r -= w; if r <= 0: return i" from position i, with r scaled by
\* den; 0 when the loop ends without returning
RouletteOn(adj, r, i, den) ==
    IF i > Len(adj) THEN 0
    ELSE IF r - adj[i] * den <= 0 THEN i
    ELSE RouletteOn(adj, r - adj[i] * den, i + 1, den)

\* the loop for a draw of the grid
Roulette(adj, r, i) == RouletteOn(adj, r, i, Grid)

\* nonsense._pick_weighted with random.random() = num/den
PickWeightedOn(items, weights, k, num, den) ==
    IF AdjustRaises(weights, k) THEN [exc |-> "OverflowError", val |-> <<>>]
    ELSE LET adj == Adjusted(weights, k)
             i == RouletteOn(adj, num * Sum(adj), 1, den)
         IN  IF i = 0
             THEN IF items = <<>> THEN [exc |-> "IndexError", val |-> <<>>]
                  ELSE [exc |-> "none", val |-> items[Len(items)]]
             ELSE IF i > Len(items) THEN [exc |-> "IndexError", val |-> <<>>]
                  ELSE [exc |-> "none", val |-> items[i]]

\* nonsense._pick_weighted with random.random() = u/Grid
PickWeighted(items, weights, k, u) == PickWeightedOn(items, weights, k, u, Grid)

\* nonsense._pick_from_options with random.random() = num/den; drew tells
\* whether the draw was consumed
PickFromOptionsOn(options, k, num, den) ==
    IF options = <<>> THEN [exc |-> "none", val |-> NoneVal, drew |-> FALSE]
    ELSE LET weights == [i \in 1..Len(options) |-> options[i][2]] IN
         IF AdjustRaises(weights, k)
         THEN [exc |-> "OverflowError", val |-> NoneVal, drew |-> FALSE]
         ELSE LET adj == Adjusted(weights, k)
                  i == RouletteOn(adj, num * Sum(adj), 1, den)
              IN  [exc |-> "none",
                   val |-> IF i = 0 THEN options[Len(options)][1]
                           ELSE options[i][1],
                   drew |-> TRUE]

\* nonsense._pick_from_options with random.random() = u/Grid
PickFromOptions(options, k, u) == PickFromOptionsOn(options, k, u, Grid)

----------------------------------------------------------------------------
(* generate_fragment *)

\* the longest run of the extension loop that the settings of the model ask for
MaxExt == 3

ExtDraws == [1..MaxExt -> 0..(Grid - 1)]

\* what one iteration of the extension loop did: the words so far, the table
\* the candidates came from ("c2", "c1" or "none"), the word sampled and
\* whether its stripped form was appended
Step(before, table, sampled, appended) ==
    [before |-> before, table |-> table, sampled |-> sampled, appended |-> appended]

\* a lookup that tries the unigram table first
UnigramFirst(m, words) ==
    LET last == words[Len(words)] IN
    IF last \in DOMAIN m.c1 THEN "c1"
    ELSE IF Len(words) >= 2 /\ Key2(words[Len(words) - 1], last) \in DOMAIN m.c2
         THEN "c2"
    ELSE "none"

\* which table an iteration reads: c2 under the key of the last two words
\* when len(words) >= 2 and the key is there, else c1 under the last word
\* when that is there, else none
Lookup(m, words) ==
    LET last == words[Len(words)] IN
    IF Len(words) >= 2 /\ Key2(words[Len(words) - 1], last) \in DOMAIN m.c2
    THEN "c2"
    ELSE IF last \in DOMAIN m.c1 THEN "c1"
    ELSE "none"

RECURSIVE Extend(_, _, _, _, _, _, _)
\* the extension loop of generate_fragment with n iterations left; us are
\* the draws of random.random(), used counts those consumed so far, steps
\* records the iterations made
Extend(m, words, n, k, us, used, steps) ==
    IF n = 0 THEN [exc |-> "none", words |-> words, used |-> used, steps |-> steps]
    ELSE IF words = <<>>
    THEN [exc |-> "IndexError", words |-> words, used |-> used, steps |-> steps]
    ELSE
    LET last == words[Len(words)]
        table == Lookup(m, words)
    IN  IF table = "none"
        THEN [exc |-> "none", words |-> words, used |-> used,
              steps |-> Append(steps, Step(words, "none", NoneVal, FALSE))]
        ELSE
        LET options == IF table = "c2" THEN m.c2[Key2(words[Len(words) - 1], last)]
                       ELSE m.c1[last]
            p == PickFromOptions(options, k, us[used + 1])
            now == IF p.drew THEN used + 1 ELSE used
        IN  IF p.exc # "none"
            THEN [exc |-> p.exc, words |-> words, used |-> now, steps |-> steps]
            ELSE IF p.val = NoneVal \/ p.val = <<>> \/ RStrip(p.val) = <<>>
                 THEN [exc |-> "none", words |-> words, used |-> now,
                       steps |-> Append(steps, Step(words, table, p.val, FALSE))]
            ELSE Extend(m, Append(words, RStrip(p.val)), n - 1, k, us, now,
                        Append(steps, Step(words, table, p.val, TRUE)))

\* words[:target_len]
Prefix(words, tl) ==
    SubSeq(words, 1, IF tl >= 0 THEN (IF tl < Len(words) THEN tl ELSE Len(words))
                     ELSE (IF Len(words) + tl > 0 THEN Len(words) + tl ELSE 0))

\* the body of generate_fragment after _load_model(), on the loaded model m:
\* tl is the value random.randint(min_words, max_words) returns, u0 the draw
\* of the starter, us the draws of the extension loop.  The record holds the
\* exception raised or the fragment returned, the draws consumed in order,
\* and the locals target_len, starter and words with the loop's iterations.
FragmentRun(m, k, tl, u0, us) ==
    LET st == PickWeighted(m.s, m.sw, k, u0) IN
    IF st.exc # "none"
    THEN [exc |-> st.exc, fragment |-> NoneVal,
          draws |-> <<"target_len", "starter">>, target_len |-> tl,
          starter |-> <<>>, words |-> <<>>, steps |-> <<>>]
    ELSE
    LET n == IF tl > Len(st.val) THEN tl - Len(st.val) ELSE 0
        ex == Extend(m, st.val, n, k, us, 0, <<>>)
    IN  [exc |-> ex.exc,
         fragment |-> IF ex.exc # "none" THEN NoneVal
                      ELSE FixContractions(Lower(Join(Prefix(ex.words, tl)))),
         draws |-> <<"target_len", "starter">> \o [i \in 1..ex.used |-> "next"],
         target_len |-> tl, starter |-> st.val, words |-> ex.words,
         steps |-> ex.steps]

\* generate_fragment after the load as inject_nonsense sees it: the
\* exception or the fragment, and the draws consumed
FragmentOf(m, k, tl, u0, us) ==
    LET run == FragmentRun(m, k, tl, u0, us) IN
    [exc |-> run.exc, fragment |-> run.fragment, draws |-> run.draws]

\* a draw that leaves out the upper end, as random.randrange(lo, hi) does
RandIntExclusive(lo, hi) == lo..(hi - 1)

\* the values random.randint(lo, hi) can return
RandInt(lo, hi) == lo..hi

\* every run of generate_fragment(min_words, max_words, temperature) on the
\* loaded model m, over all draws
FragmentRuns(m, min_words, max_words, k) ==
    IF min_words > max_words
    THEN {[exc |-> "ValueError", fragment |-> NoneVal, draws |-> <<"target_len">>,
           target_len |-> -1, starter |-> <<>>, words |-> <<>>, steps |-> <<>>]}
    ELSE {FragmentRun(m, k, tl, u0, us) :
              tl \in RandInt(min_words, max_words), u0 \in 0..(Grid - 1), us \in ExtDraws}

\* every outcome of generate_fragment(min_words, max_words, temperature) on
\* the loaded model m, over all draws
FragmentOutcomes(m, min_words, max_words, k) ==
    IF min_words > max_words
    THEN {[exc |-> "ValueError", fragment |-> NoneVal, draws |-> <<"target_len">>]}
    ELSE {FragmentOf(m, k, tl, u0, us) :
              tl \in RandInt(min_words, max_words), u0 \in 0..(Grid - 1), us \in ExtDraws}

----------------------------------------------------------------------------
(* Configuration dictionaries *)

EmptyDict == <<>>

\* dict.get(key, default)
Get(d, key, default) == IF key \in DOMAIN d THEN d[key] ELSE default

\* injection_chance is held in twentieths (3 is 0.15, 20 is 1.0) and
\* temperature as the integer 1/temperature (1 is 1.0, 2 is 0.5, 1024 is
\* 0.0009765625)
CfgNoDials == [world_bible_path |-> "world_bible.json"]
CfgNoNonsense == [dials |-> [tone |-> "deadpan"]]
CfgNoEnabled == [dials |-> [nonsense |-> [injection_chance |-> 20]]]
CfgDisabled ==
    [dials |-> [nonsense |-> [enabled |-> FALSE, injection_chance |-> 20,
                              min_fragment |-> 2, max_fragment |-> 4,
                              temperature |-> 1]]]
CfgDefault == [dials |-> [nonsense |-> [enabled |-> TRUE]]]
CfgAlways ==
    [dials |-> [nonsense |-> [enabled |-> TRUE, injection_chance |-> 20,
                              min_fragment |-> 1, max_fragment |-> 5,
                              temperature |-> 1]]]
CfgSharp ==
    [dials |-> [nonsense |-> [enabled |-> TRUE, injection_chance |-> 20,
                              min_fragment |-> 2, max_fragment |-> 2,
                              temperature |-> 2]]]
CfgTiny ==
    [dials |-> [nonsense |-> [enabled |-> TRUE, injection_chance |-> 20,
                              temperature |-> 1024]]]
CfgNever == [dials |-> [nonsense |-> [enabled |-> TRUE, injection_chance |-> 0]]]
CfgZero ==
    [dials |-> [nonsense |-> [enabled |-> TRUE, injection_chance |-> 20,
                              min_fragment |-> 0, max_fragment |-> 0,
                              temperature |-> 1]]]

Configs == {CfgNoDials, CfgNoNonsense, CfgNoEnabled, CfgDisabled, CfgDefault,
            CfgAlways, CfgSharp, CfgTiny, CfgNever, CfgZero}

\* settings = config.get("dials", {}).get("nonsense", {})
SettingsOf(config) == Get(Get(config, "dials", EmptyDict), "nonsense", EmptyDict)

----------------------------------------------------------------------------
(* _load_model *)

\* a loader that opens and parses the file on every call
LoadModelUncached(mdl, f) ==
    IF f \in DOMAIN ModelFiles
    THEN [exc |-> "none", model |-> <<ModelFiles[f]>>, opened |-> 1]
    ELSE IF f = "missing"
         THEN [exc |-> "FileNotFoundError", model |-> <<>>, opened |-> 1]
    ELSE [exc |-> "JSONDecodeError", model |-> <<>>, opened |-> 1]

\* nonsense._load_model on the cache mdl (<<>> is None, <<m>> a loaded model)
\* and the file f: the exception raised, the cache afterwards and the number
\* of times the file was opened
LoadModel(mdl, f) ==
    IF mdl # <<>> THEN [exc |-> "none", model |-> mdl, opened |-> 0]
    ELSE IF f \in DOMAIN ModelFiles
         THEN [exc |-> "none", model |-> <<ModelFiles[f]>>, opened |-> 1]
    ELSE IF f = "missing"
         THEN [exc |-> "FileNotFoundError", model |-> <<>>, opened |-> 1]
    ELSE [exc |-> "JSONDecodeError", model |-> <<>>, opened |-> 1]

\* the fragment settings the configurations of the model use
FragSettings ==
    {<<Get(SettingsOf(c), "min_fragment", 2), Get(SettingsOf(c), "max_fragment", 4),
       Get(SettingsOf(c), "temperature", 1)>> : c \in Configs}

\* FragmentOutcomes on the model of the file, tabulated once
FragTable ==
    [st \in FragSettings |-> FragmentOutcomes(MarkovFile, st[1], st[2], st[3])]

\* generate_fragment after the load: its outcomes on the loaded model m
Fragments(m, min_words, max_words, k) ==
    IF m = MarkovFile /\ <<min_words, max_words, k>> \in FragSettings
    THEN FragTable[<<min_words, max_words, k>>]
    ELSE FragmentOutcomes(m, min_words, max_words, k)

----------------------------------------------------------------------------
(* inject_nonsense *)

Margin == 6

\* a tokeniser that splits on whitespace alone, cutting directives apart
TokeniseBySplit(script_text) == Split(script_text, 1)

\* tokens = re.findall(r'\[[A-Z_-]+:\s*[^\]]+\]|\S+', script_text)
Tokenise(script_text) == FindTokens(script_text, 1)

\* t.startswith('[')
IsTagToken(t) == t # <<>> /\ t[1] = "["

RECURSIVE SpokenFrom(_, _)
SpokenFrom(tokens, i) ==
    IF i > Len(tokens) THEN <<>>
    ELSE IF IsTagToken(tokens[i]) THEN SpokenFrom(tokens, i + 1)
    ELSE <<i>> \o SpokenFrom(tokens, i + 1)

\* spoken_idx = [i for i, t in enumerate(tokens) if not t.startswith('[')],
\* as positions 1..Len(tokens)
SpokenIdx(tokens) == SpokenFrom(tokens, 1)

\* a switch that is on unless switched off
EnabledByDefault(settings) == Get(settings, "enabled", TRUE)

\* settings.get("enabled", False)
Enabled(settings) == Get(settings, "enabled", FALSE)

\* if len(spoken_idx) < margin * 2 + frag_len: return unchanged
TooShort(n, frag_len) == n < Margin * 2 + frag_len

\* lo = margin
WindowLo == Margin

\* an upper end one too far: the last start then reaches into the margin
WindowHiOneMore(n, frag_len) == n - Margin - frag_len + 1

\* hi = len(spoken_idx) - margin - frag_len
WindowHi(n, frag_len) == n - Margin - frag_len

\* if hi <= lo: return unchanged
NoWindow(lo, hi) == hi <= lo

\* positions = spoken_idx[inject_at : inject_at + frag_len], inject_at
\* counted from 0 as in the source
Positions(spoken_idx, inject_at, frag_len) ==
    SubSeq(spoken_idx, inject_at + 1, inject_at + frag_len)

\* for j, pos in enumerate(positions): if j < len(frag_words): tokens[pos] = frag_words[j]
Replace(tokens, positions, frag_words) ==
    [p \in 1..Len(tokens) |->
        IF \E j \in 1..Len(positions) : positions[j] = p /\ j <= Len(frag_words)
        THEN frag_words[CHOOSE j \in 1..Len(positions) : positions[j] = p]
        ELSE tokens[p]]

\* the locals of a call that is not a generate_fragment call of its own
NoRun == [args |-> <<>>, target_len |-> -1, starter |-> <<>>, words |-> <<>>,
          steps |-> <<>>, ret |-> NoneVal]

\* the outcome of one inject_nonsense call: its arguments, what it returned
\* (or the exception it raised), the random draws it consumed in order, the
\* number of times it opened the model file, the cache _model afterwards, and
\* the locals inject_at, frag_len and len(spoken_idx) (-1 where never assigned)
CallRecord(script_text, config, out, injected, fragment, exc, draws, ld, inject_at, frag_len, n) ==
    [op |-> "inject_nonsense", script |-> script_text, config |-> config,
     ret_script |-> out, injected |-> injected, fragment |-> fragment,
     exc |-> exc, draws |-> draws, opened |-> ld.opened, model |-> ld.model,
     inject_at |-> inject_at, frag_len |-> frag_len, n_spoken |-> n,
     run |-> NoRun]

\* a return of the re-joined tokens in place of the argument
UnchangedRejoined(script_text, config, draws, ld, frag_len, n) ==
    CallRecord(script_text, config, Join(FindTokens(script_text, 1)), FALSE,
               NoneVal, "none", draws, ld, -1, frag_len, n)

\* return script_text, False, None
Unchanged(script_text, config, draws, ld, frag_len, n) ==
    CallRecord(script_text, config, script_text, FALSE, NoneVal, "none", draws,
               ld, -1, frag_len, n)

Raised(script_text, config, exc, draws, ld) ==
    CallRecord(script_text, config, NoneVal, FALSE, NoneVal, exc, draws, ld,
               -1, -1, -1)

\* inject_nonsense from the tokenisation on, for the fragment outcome fo
AfterFragment(script_text, config, ld, fo) ==
    LET draws == <<"gate">> \o fo.draws IN
    IF fo.exc # "none" THEN {Raised(script_text, config, fo.exc, draws, ld)}
    ELSE
    LET frag_words == Split(fo.fragment, 1)
        frag_len == Len(frag_words)
        tokens == Tokenise(script_text)
        spoken_idx == SpokenIdx(tokens)
        n == Len(spoken_idx)
        lo == WindowLo
        hi == WindowHi(n, frag_len)
    IN  IF TooShort(n, frag_len)
        THEN {Unchanged(script_text, config, draws, ld, frag_len, n)}
        ELSE IF NoWindow(lo, hi)
        THEN {Unchanged(script_text, config, draws, ld, frag_len, n)}
        ELSE {CallRecord(script_text, config,
                         Join(Replace(tokens,
                                      Positions(spoken_idx, inject_at, frag_len),
                                      frag_words)),
                         TRUE, fo.fragment, "none",
                         Append(draws, "inject_at"), ld, inject_at, frag_len, n)
              : inject_at \in RandInt(lo, hi)}

\* if random.random() > chance, for the draw u/Grid and chance in twentieths
GateMisses(u, chance) == 20 * u > chance * Grid

\* a gate that is rolled only after the model has been loaded
GateMissedAfterLoad(script_text, config, mdl, f) ==
    LET ld == LoadModel(mdl, f) IN
    IF ld.exc # "none" THEN {Raised(script_text, config, ld.exc, <<"gate">>, ld)}
    ELSE {Unchanged(script_text, config, <<"gate">>, ld, -1, -1)}

\* the return of "if random.random() > chance": nothing but the gate's draw
\* has happened
GateMissed(script_text, config, mdl, f) ==
    {Unchanged(script_text, config, <<"gate">>,
               [exc |-> "none", model |-> mdl, opened |-> 0], -1, -1)}

\* Every outcome of inject_nonsense(script_text, config) with the cache mdl
\* and the model file in state f, over all random draws.
InjectNonsense(script_text, config, mdl, f) ==
    LET settings == SettingsOf(config)
        idle == [exc |-> "none", model |-> mdl, opened |-> 0]
    IN  IF ~Enabled(settings)
        THEN {Unchanged(script_text, config, <<>>, idle, -1, -1)}
        ELSE UNION {
            IF GateMisses(u, Get(settings, "injection_chance", 3))
            THEN GateMissed(script_text, config, mdl, f)
            ELSE LET ld == LoadModel(mdl, f) IN
                 IF ld.exc # "none"
                 THEN {Raised(script_text, config, ld.exc, <<"gate">>, ld)}
                 ELSE UNION {AfterFragment(script_text, config, ld, fo) :
                                fo \in Fragments(ld.model[1],
                                                 Get(settings, "min_fragment", 2),
                                                 Get(settings, "max_fragment", 4),
                                                 Get(settings, "temperature", 1))}
            : u \in 0..(Grid - 1)}

\* the outcome of one generate_fragment call: the exception raised or the
\* fragment returned, the draws, the file opens, the cache afterwards and
\* the locals of the run
FragmentRecord(args, ld, run) ==
    [op |-> "generate_fragment", script |-> <<>>, config |-> CfgNoDials,
     ret_script |-> NoneVal, injected |-> FALSE, fragment |-> run.fragment,
     exc |-> run.exc, draws |-> run.draws, opened |-> ld.opened,
     model |-> ld.model, inject_at |-> -1, frag_len |-> -1, n_spoken |-> -1,
     run |-> [args |-> args, target_len |-> run.target_len,
              starter |-> run.starter, words |-> run.words, steps |-> run.steps,
              ret |-> run.fragment]]

\* Every outcome of generate_fragment(min_words, max_words, temperature)
\* with the cache mdl and the model file in state f, over all random draws.
GenerateFragment(min_words, max_words, k, mdl, f) ==
    LET ld == LoadModel(mdl, f)
        args == <<min_words, max_words, k>>
    IN  IF ld.exc # "none"
        THEN {FragmentRecord(args, ld,
                  [exc |-> ld.exc, fragment |-> NoneVal, draws |-> <<>>,
                   target_len |-> -1, starter |-> <<>>, words |-> <<>>,
                   steps |-> <<>>])}
        ELSE {FragmentRecord(args, ld, run) :
                  run \in FragmentRuns(ld.model[1], min_words, max_words, k)}

----------------------------------------------------------------------------
(* The scripts the calls are made on *)

\* the number of file opens after which no further call is explored
MaxReads == 2

\* the threads of the process that call generate_script
Threads == 1..MaxThreads

ScriptLetters == <<"u", "v", "w", "x", "y", "z">>

\* the i-th word of a script: 36 distinct two-letter words, none of them a
\* word of the Markov model
Word(i) ==
    <<ScriptLetters[(((i - 1) \div 6) % 6) + 1], ScriptLetters[((i - 1) % 6) + 1]>>

\* words a..b joined by single spaces
Plain(a, b) == IF a > b THEN <<>> ELSE Join([i \in 1..(b - a + 1) |-> Word(a + i - 1)])

\* what stands between word pos and word pos+1 of a script, by kind
Middle(kind) ==
    CASE kind = "tag" -> <<" ", "[", "T", ":", " ", "x", " ", "y", "]", " ">>
      [] kind = "gluedleft" -> <<"[", "T", ":", " ", "x", " ", "y", "]", " ">>
      [] kind = "gluedright" -> <<" ", "[", "T", ":", " ", "x", " ", "y", "]">>
      [] kind = "nospace" -> <<"[", "T", ":", "x", "]", " ">>
      [] kind = "bracket" -> <<" ", "[", "s", "i", "c", "]", " ">>
      [] kind = "wide" -> <<"\n", "[", "B", "-", "R", ":", " ", " ", "x", "]", " ", " ">>
      [] kind = "newline" -> <<"\n">>

Kinds == {"tag", "gluedleft", "gluedright", "nospace", "bracket", "wide", "newline"}

\* n words with Middle(kind) between word pos and word pos+1
Special(n, kind, pos) == Plain(1, pos) \o Middle(kind) \o Plain(pos + 1, n)

\* the example script of the specification, its tokens joined by spaces
ExampleScript == <<
    "G", "o", "o", "d", " ", "e", "v", "e", "n", "i", "n", "g", ",", " ",
    "[", "C", "H", "Y", "R", "O", "N", ":", " ",
    "T", "E", "S", "T", "]", " ", "t", "h", "e", " ",
    "m", "a", "y", "o", "r", " ",
    "a", "n", "n", "o", "u", "n", "c", "e", "d", " ", "a", " ",
    "n", "e", "w", " ", "p", "l", "a", "n", " ",
    "t", "o", "d", "a", "y", " ", "f", "o", "r", " ", "t", "h", "e", " ",
    "c", "i", "t", "y", " ", "c", "o", "u", "n", "c", "i", "l", " ",
    "t", "o", " ", "r", "e", "v", "i", "e", "w", " ", "." >>

\* a script of 30 spoken words
Script30 == Plain(1, 30)

PlainScripts == {Plain(1, n) : n \in 0..MaxWords}

SpecialScripts ==
    {Special(MaxWords, kind, pos) : kind \in Kinds, pos \in 1..(MaxWords - 1)}

Scripts == PlainScripts \cup SpecialScripts \cup {ExampleScript, Script30}

----------------------------------------------------------------------------
(* The state machine of the injector *)

NoCall ==
    [op |-> "none", script |-> <<>>, config |-> CfgNoDials, ret_script |-> NoneVal,
     injected |-> FALSE, fragment |-> NoneVal, exc |-> "none", draws |-> <<>>,
     opened |-> 0, inject_at |-> -1, frag_len |-> -1, n_spoken |-> -1,
     run |-> NoRun]

\* no thread is inside _load_model, none has called it yet; obj tells which
\* read of the file produced the object _model holds (0 for None)
NoLoader == [pc |-> [t \in Threads |-> "idle"], calls |-> [t \in Threads |-> 0],
             local |-> [t \in Threads |-> 0], got |-> [t \in Threads |-> 0],
             exc |-> [t \in Threads |-> "none"], obj |-> 0]

NoPilot == [pc |-> "idle", config |-> CfgNoDials, count |-> 0, i |-> 0,
            nonsense_slot |-> 0, stories |-> <<>>, exc |-> "none"]

\* no call of generate_script is in progress
NoWriter == [op |-> "none", attempts |-> 0, reply |-> NoneVal, script |-> NoneVal,
             word_count |-> -1, nonsense_injected |-> FALSE, exc |-> "none"]

\* _run_generator has not run: its counter, the exception its last iteration
\* caught, and for every story it generated whether the story was made heavy
NoGen == [pc |-> "idle", config |-> CfgNoDials, stories_since_nonsense |-> 0,
          hour_stories |-> 0, script |-> NoneVal, caught |-> "none", heavy |-> <<>>]

\* dashboard/app.py at import, before _load_existing_stories: recent_stories = []
NoFeed == [loaded |-> FALSE, recent_stories |-> <<>>, ticker_headlines |-> <<>>,
           pushes |-> 0, exc |-> "none"]

\* the generator's controls at import: generator_thread = None, the stop
\* event clear, no thread created, no request being served
NoCtl == [generator_thread |-> 0, stop |-> FALSE,
          th |-> [t \in 1..MaxGen |-> "none"],
          req |-> [r \in 1..MaxReqs |-> [pc |-> "idle", overlapped |-> FALSE]],
          ok_start |-> FALSE]

\* _poll_video_status has not been called
NoPoll == [pc |-> "idle", attempt |-> 0, requests |-> 0, last |-> "none", ret |-> NoneVal]

Init ==
    /\ model = <<>>
    /\ file \in {"ok", "missing", "corrupt"}
    /\ reads = 0
    /\ call = NoCall
    /\ pilot = NoPilot
    /\ loader = NoLoader
    /\ writer = NoWriter
    /\ gen = NoGen
    /\ feed = NoFeed
    /\ ctl = NoCtl
    /\ poll = NoPoll

\* one call of inject_nonsense(script_text, config), made when the caller
\* holds no earlier result
CallInjectNonsense ==
    /\ call.op = "none"
    /\ \E script_text \in Scripts, config \in Configs :
        \E o \in InjectNonsense(script_text, config, model, file) :
            /\ reads + o.opened <= MaxReads
            /\ call' = [k \in DOMAIN NoCall |-> o[k]]
            /\ model' = o.model
            /\ reads' = reads + o.opened
            /\ UNCHANGED <<file, pilot, loader, writer, gen, feed, ctl, poll>>

\* the arguments generate_fragment is called with: its defaults, the widest
\* and the sharpest settings of the configurations, a target of 0 or 1 word,
\* and the temperature 1/1024
FragmentArgs == {<<2, 4, 1>>, <<1, 5, 1>>, <<2, 2, 2>>, <<0, 1, 1>>, <<2, 4, 1024>>}

\* one call of generate_fragment(min_words, max_words, temperature)
CallGenerateFragment ==
    /\ call.op = "none"
    /\ \E args \in FragmentArgs :
        \E o \in GenerateFragment(args[1], args[2], args[3], model, file) :
            /\ reads + o.opened <= MaxReads
            /\ call' = [k \in DOMAIN NoCall |-> o[k]]
            /\ model' = o.model
            /\ reads' = reads + o.opened
            /\ UNCHANGED <<file, pilot, loader, writer, gen, feed, ctl, poll>>

\* the caller has used the returned triple (or handled the exception) and
\* is ready for its next call
TakeResult ==
    /\ call.op # "none"
    /\ call' = NoCall
    /\ UNCHANGED <<model, file, reads, pilot, loader, writer, gen, feed, ctl, poll>>

Next == CallInjectNonsense \/ CallGenerateFragment \/ TakeResult

Spec == Init /\ [][Next]_vars

----------------------------------------------------------------------------
(* generate_script's call of the injector, and run_pilot's batch loop *)

\* writer.generate_script from the call of inject_nonsense to its return, on
\* the script text the earlier steps produced: every outcome, each either an
\* exception that leaves generate_script or the script_data returned
GenerateScript(script_text, config, mdl, f) ==
    {[exc |-> o.exc,
      script_data |-> [script |-> o.ret_script, nonsense_injected |-> o.injected],
      model |-> o.model, opened |-> o.opened]
     : o \in InjectNonsense(script_text, config, mdl, f)}

\* the share of the spoken words the callers of inject_heavy_nonsense ask
\* for, target_ratio = 0.80, as the fraction HeavyNum / HeavyDen
HeavyNum == 4

HeavyDen == 5

\* inject_heavy_nonsense(script_text, config, target_ratio=0.80): the
\* primitive of inject_nonsense asked for a fragment that covers the target
\* ratio of the spoken words.  It loads the model, and a model that cannot be
\* loaded is propagated to the caller; the fragment needs the same window as
\* in inject_nonsense (Margin spoken words on either side), and a script with
\* no such window comes back unchanged with no sample.  Every script of this
\* model is shorter than the 60 spoken words an 80% fragment needs, so the
\* substitution itself is never reached here.
HeavyNonsense(script_text, config, mdl, f) ==
    LET ld == LoadModel(mdl, f)
        n == Len(SpokenIdx(Tokenise(script_text)))
        frag_len == (HeavyNum * n) \div HeavyDen
    IN  IF ld.exc # "none"
        THEN [exc |-> ld.exc, script |-> NoneVal, replaced |-> 0,
              model |-> ld.model, opened |-> ld.opened]
        ELSE IF n < 2 * Margin + frag_len \/ n - Margin - frag_len <= Margin
        THEN [exc |-> "none", script |-> script_text, replaced |-> 0,
              model |-> ld.model, opened |-> ld.opened]
        ELSE [exc |-> "none",
              script |-> Join(Replace(Tokenise(script_text),
                                      Positions(SpokenIdx(Tokenise(script_text)), Margin, frag_len),
                                      [j \in 1..frag_len |-> Wmilk])),
              replaced |-> frag_len, model |-> ld.model, opened |-> ld.opened]

\* the script texts the writer's model call yields in a batch
PilotScripts == {Plain(1, 3), Plain(1, 15)}

\* the configurations a batch is run under
PilotConfigs == {CfgDisabled, CfgDefault, CfgSharp}

\* nonsense_slot = random.randint(1, count - 1) if count > 1 else 0
NonsenseSlots(count) == IF count > 1 THEN RandInt(1, count - 1) ELSE {0}

\* run_pilot up to the batch loop
StartPilot ==
    /\ pilot.pc = "idle"
    /\ \E config \in PilotConfigs, count \in 0..MaxCount :
       \E slot \in NonsenseSlots(count) :
          pilot' = [pc |-> "loop", config |-> config, count |-> count, i |-> 0,
                    nonsense_slot |-> slot, stories |-> <<>>, exc |-> "none"]
    /\ UNCHANGED <<model, file, reads, call, loader, writer, gen, feed, ctl, poll>>

\* one iteration of "for i in range(count)": generate_script, the heavy
\* nonsense and the heavy flag of the designated slot, all_stories.append;
\* an exception of generate_script or of inject_heavy_nonsense is caught
\* nowhere in run_pilot and ends the run
PilotStory ==
    /\ pilot.pc = "loop"
    /\ pilot.i < pilot.count
    /\ \E script_text \in PilotScripts :
       \E g \in GenerateScript(script_text, pilot.config, model, file) :
          IF g.exc # "none"
          THEN /\ reads + g.opened <= MaxReads
               /\ model' = g.model
               /\ reads' = reads + g.opened
               /\ pilot' = [pilot EXCEPT !.pc = "crashed", !.exc = g.exc]
          ELSE IF pilot.i # pilot.nonsense_slot
          THEN /\ reads + g.opened <= MaxReads
               /\ model' = g.model
               /\ reads' = reads + g.opened
               /\ pilot' = [pilot EXCEPT
                    !.i = @ + 1,
                    !.stories = Append(@,
                        [script |-> g.script_data.script,
                         nonsense_injected |-> g.script_data.nonsense_injected,
                         nonsense_heavy |-> FALSE])]
          ELSE LET h == HeavyNonsense(g.script_data.script, pilot.config, g.model, file)
               IN  /\ reads + g.opened + h.opened <= MaxReads
                   /\ model' = h.model
                   /\ reads' = reads + g.opened + h.opened
                   /\ IF h.exc # "none"
                      THEN pilot' = [pilot EXCEPT !.pc = "heavy_crashed", !.exc = h.exc]
                      ELSE pilot' = [pilot EXCEPT
                            !.i = @ + 1,
                            !.stories = Append(@,
                                [script |-> h.script,
                                 nonsense_injected |-> g.script_data.nonsense_injected,
                                 nonsense_heavy |-> TRUE])]
    /\ UNCHANGED <<file, call, loader, writer, gen, feed, ctl, poll>>

\* the loop is over: the summary and "Pilot complete"
PilotFinish ==
    /\ pilot.pc = "loop"
    /\ pilot.i = pilot.count
    /\ pilot' = [pilot EXCEPT !.pc = "done"]
    /\ UNCHANGED <<model, file, reads, call, loader, writer, gen, feed, ctl, poll>>

PilotNext == StartPilot \/ PilotStory \/ PilotFinish

PilotSpec == Init /\ [][PilotNext]_vars

----------------------------------------------------------------------------
(* _load_model step by step, called from the threads of one process *)

\* a thread calls _load_model (through generate_script, inject_nonsense and
\* generate_fragment)
LoadEnter ==
    \E t \in Threads :
        /\ loader.pc[t] = "idle"
        /\ loader.calls[t] < MaxCalls
        /\ loader' = [loader EXCEPT !.pc[t] = "test", !.exc[t] = "none"]
        /\ UNCHANGED <<model, file, reads, call, pilot, writer, gen, feed, ctl, poll>>

\* if _model is None
LoadTest ==
    \E t \in Threads :
        /\ loader.pc[t] = "test"
        /\ loader' = [loader EXCEPT
                         !.pc[t] = IF model = <<>> THEN "open" ELSE "return"]
        /\ UNCHANGED <<model, file, reads, call, pilot, writer, gen, feed, ctl, poll>>

\* with open(_model_path) as f: json.load(f), the value held on the thread's
\* stack; FileNotFoundError or JSONDecodeError leaves the function
LoadOpen ==
    \E t \in Threads :
        /\ loader.pc[t] = "open"
        /\ reads' = reads + 1
        /\ IF file \in DOMAIN ModelFiles
           THEN loader' = [loader EXCEPT !.pc[t] = "assign", !.local[t] = reads + 1]
           ELSE loader' = [loader EXCEPT
                              !.pc[t] = "idle", !.calls[t] = @ + 1, !.got[t] = 0,
                              !.exc[t] = IF file = "missing" THEN "FileNotFoundError"
                                         ELSE "JSONDecodeError"]
        /\ UNCHANGED <<model, file, call, pilot, writer, gen, feed, ctl, poll>>

\* _model = <the object json.load returned>
LoadAssign ==
    \E t \in Threads :
        /\ loader.pc[t] = "assign"
        /\ model' = <<ModelFiles[file]>>
        /\ loader' = [loader EXCEPT !.pc[t] = "return", !.obj = loader.local[t]]
        /\ UNCHANGED <<file, reads, call, pilot, writer, gen, feed, ctl, poll>>

\* return _model: the object the global holds at this moment
LoadReturn ==
    \E t \in Threads :
        /\ loader.pc[t] = "return"
        /\ loader' = [loader EXCEPT
                         !.pc[t] = "idle", !.calls[t] = @ + 1, !.got[t] = loader.obj]
        /\ UNCHANGED <<model, file, reads, call, pilot, writer, gen, feed, ctl, poll>>

LoadNext == LoadEnter \/ LoadTest \/ LoadOpen \/ LoadAssign \/ LoadReturn

LoadSpec == Init /\ [][LoadNext]_vars

----------------------------------------------------------------------------
(* generate_fragment on its own, over the model files *)

FragInit ==
    /\ model = <<>>
    /\ file \in DOMAIN ModelFiles \cup {"missing", "corrupt"}
    /\ reads = 0
    /\ call = NoCall
    /\ pilot = NoPilot
    /\ loader = NoLoader
    /\ writer = NoWriter
    /\ gen = NoGen
    /\ feed = NoFeed
    /\ ctl = NoCtl
    /\ poll = NoPoll

FragNext == CallGenerateFragment \/ TakeResult

FragSpec == FragInit /\ [][FragNext]_vars

----------------------------------------------------------------------------
(* The pure helpers, called on their own *)

\* longest text given to _fix_contractions, in words
MaxFixWords == 4

\* largest weight and longest list given to the samplers
MaxWeight == 3
MaxItems == 3

\* the words the texts are made of: both halves of the rules "i m", "don t"
\* and "i d"
FixVocab == {Wi, Wm, Wdon, Wt, Wd}

\* the lowercase word sequences of up to MaxFixWords words
FixTexts == {Join(ws) : ws \in UNION {[1..n -> FixVocab] : n \in 0..MaxFixWords}}

\* the record of a call of a helper: its arguments and what it returned
HelperRecord(op, args, exc, ret) ==
    [NoCall EXCEPT !.op = op, !.exc = exc,
                   !.run = [NoRun EXCEPT !.args = args, !.ret = ret]]

\* one call of _fix_contractions(text)
CallFixContractions ==
    /\ call.op = "none"
    /\ \E text \in FixTexts :
          call' = HelperRecord("_fix_contractions", <<text>>, "none",
                               FixContractions(text))
    /\ UNCHANGED <<model, file, reads, pilot, loader, writer, gen, feed, ctl, poll>>

SamplerItems == <<"a", "b", "c", "d">>

\* the weight lists: non-negative weights, not all of them zero
SamplerWeights ==
    {ws \in UNION {[1..n -> 0..MaxWeight] : n \in 1..MaxItems} : Sum(ws) > 0}

\* the values of random.random(): the grid, and 0.9
SamplerDraws == {<<u, Grid>> : u \in 0..(Grid - 1)} \cup {<<9, 10>>}

\* the temperatures 1.0, 0.5 and 1/1024
SamplerTemps == {1, 2, 1024}

\* one call of _pick_weighted(items, weights, temperature)
CallPickWeighted ==
    /\ call.op = "none"
    /\ \E weights \in SamplerWeights, k \in SamplerTemps, d \in SamplerDraws :
          LET items == SubSeq(SamplerItems, 1, Len(weights))
              p == PickWeightedOn(items, weights, k, d[1], d[2])
          IN  call' = HelperRecord("_pick_weighted",
                                   <<items, weights, k, d[1], d[2]>>, p.exc, p.val)
    /\ UNCHANGED <<model, file, reads, pilot, loader, writer, gen, feed, ctl, poll>>

\* one call of _pick_from_options(options, temperature) on [word, frequency]
\* pairs
CallPickFromOptions ==
    /\ call.op = "none"
    /\ \E weights \in SamplerWeights, k \in SamplerTemps, d \in SamplerDraws :
          LET items == SubSeq(SamplerItems, 1, Len(weights))
              options == [i \in 1..Len(weights) |-> <<items[i], weights[i]>>]
              p == PickFromOptionsOn(options, k, d[1], d[2])
          IN  call' = HelperRecord("_pick_from_options",
                                   <<items, weights, k, d[1], d[2]>>, p.exc, p.val)
    /\ UNCHANGED <<model, file, reads, pilot, loader, writer, gen, feed, ctl, poll>>

PureNext == CallFixContractions \/ CallPickWeighted \/ CallPickFromOptions \/ TakeResult

PureSpec == Init /\ [][PureNext]_vars

----------------------------------------------------------------------------
(* video_gen._poll_video_status: the status poll of a submitted video *)

\* MAX_POLL_ATTEMPTS
MAX_POLL_ATTEMPTS == 80

\* the URL a completed video comes with
VideoUrl == <<"h", "t", "t", "p", "s", ":", "/", "/", "v">>

\* what one status request comes back with: a response whose data has the
\* status "completed" with or without a video_url, "failed", one of the three
\* statuses in progress, a status the code does not know, or no data object
\* at all ("data": null); a response raise_for_status rejects; a request
\* that raises a RequestException (timeout, connection error)
PollResponses ==
    {"completed_url", "completed_no_url", "failed", "processing", "pending",
     "waiting", "unknown", "no_data", "http_error", "request_error"}

\* a poll that takes "failed" for a status still in progress
PollOutcomeFailedSleeps(resp) ==
    CASE resp = "completed_url" -> "url"
      [] resp = "completed_no_url" -> "none"
      [] resp = "no_data" -> "raise"
      [] OTHER -> "sleep"

\* the body of the for loop on one response: "url" is return video_url,
\* "none" is return None, "sleep" is time.sleep and the next attempt, and
\* "raise" is an exception the except clause does not catch (data.get on
\* None raises AttributeError, which is no RequestException)
PollOutcome(resp) ==
    CASE resp = "completed_url" -> "url"
      [] resp \in {"completed_no_url", "failed"} -> "none"
      [] resp = "no_data" -> "raise"
      [] OTHER -> "sleep"

\* _poll_video_status(api_key, video_id) is called
PollStart ==
    /\ poll.pc = "idle"
    /\ poll' = [NoPoll EXCEPT !.pc = "polling"]
    /\ UNCHANGED <<model, file, reads, call, pilot, loader, writer, gen, feed, ctl>>

\* one iteration of "for attempt in range(MAX_POLL_ATTEMPTS)": the request
\* and what the body does with its response
PollAttempt ==
    /\ poll.pc = "polling"
    /\ poll.attempt < MAX_POLL_ATTEMPTS
    /\ \E resp \in PollResponses :
        LET o == PollOutcome(resp) IN
        poll' = [pc |-> CASE o = "sleep" -> "polling"
                          [] o = "raise" -> "raised"
                          [] OTHER -> "returned",
                 attempt |-> IF o = "sleep" THEN poll.attempt + 1 ELSE poll.attempt,
                 requests |-> poll.requests + 1,
                 last |-> resp,
                 ret |-> IF o = "url" THEN VideoUrl ELSE NoneVal]
    /\ UNCHANGED <<model, file, reads, call, pilot, loader, writer, gen, feed, ctl>>

\* the range is exhausted: the timeout warning and return None
PollTimeout ==
    /\ poll.pc = "polling"
    /\ poll.attempt = MAX_POLL_ATTEMPTS
    /\ poll' = [poll EXCEPT !.pc = "returned", !.ret = NoneVal]
    /\ UNCHANGED <<model, file, reads, call, pilot, loader, writer, gen, feed, ctl>>

PollNext == PollStart \/ PollAttempt \/ PollTimeout

PollSpec == Init /\ [][PollNext]_vars

----------------------------------------------------------------------------
(* dashboard/app.py: recent_stories, the in-memory list of the news site *)

\* the length recent_stories and ticker_headlines are cut back to
StoriesCap == 20

\* an entry of recent_stories made from a script_data whose "chyrons" is the
\* list chyrons (NoneVal when script_data has no such key)
StoryEntry(chyrons) == [type |-> "story", chyrons |-> chyrons]

\* an entry push_hourly_summary makes: its data has no "chyrons" key
SummaryEntry == [type |-> "hourly_summary", chyrons |-> NoneVal]

\* the values "chyrons" has in a script_data: no key, no chyron at all, one
\* chyron A, one chyron B
ChyronLists == {NoneVal, <<>>, <<"A">>, <<"B">>}

\* data.get("chyrons", [None])[0] on an entry whose list is not empty
FirstChyron(chyrons) == IF chyrons = NoneVal THEN "None" ELSE chyrons[1]

\* list.pop(i) for the 1-based position i
PopAt(list, i) == SubSeq(list, 1, i - 1) \o SubSeq(list, i + 1, Len(list))

RECURSIVE Dedupe(_, _, _)
\* the while loop that removes the older stories with the chyron c, from
\* the 1-based position i on: the list it leaves and the exception it raises
Dedupe(list, i, c) ==
    IF i > Len(list) THEN [list |-> list, exc |-> "none"]
    ELSE IF list[i].type # "story" THEN Dedupe(list, i + 1, c)
    ELSE IF list[i].chyrons = <<>> THEN [list |-> list, exc |-> "IndexError"]
    ELSE IF FirstChyron(list[i].chyrons) = c THEN Dedupe(PopAt(list, i), i, c)
    ELSE Dedupe(list, i + 1, c)

RECURSIVE TickerInsert(_, _, _)
\* "for c in chyrons: if c not in ticker_headlines: ticker_headlines.insert(0, c)"
\* from the k-th chyron on
TickerInsert(ticker, chyrons, k) ==
    IF k > Len(chyrons) THEN ticker
    ELSE IF \E j \in 1..Len(ticker) : ticker[j] = chyrons[k]
         THEN TickerInsert(ticker, chyrons, k + 1)
    ELSE TickerInsert(<<chyrons[k]>> \o ticker, chyrons, k + 1)

\* "if len(recent_stories) > 20: recent_stories.pop()"
TrimOnce(list) == IF Len(list) > StoriesCap THEN SubSeq(list, 1, Len(list) - 1) ELSE list

\* "while len(x) > 20: x.pop()"
TrimAll(list) == IF Len(list) > StoriesCap THEN SubSeq(list, 1, StoriesCap) ELSE list

\* push_script(script_data) on the lists recent and ticker, for a script_data
\* whose "chyrons" is chyrons: the lists afterwards and the exception that
\* leaves push_script.  The story is inserted first; the chyron is read, the
\* duplicates are removed and the list is cut after that.
PushScript(recent, ticker, chyrons) ==
    LET ins == <<StoryEntry(chyrons)>> \o recent IN
    IF chyrons = <<>>
    THEN [recent_stories |-> ins, ticker_headlines |-> ticker, exc |-> "IndexError"]
    ELSE LET new_chyron == FirstChyron(chyrons)
             d == IF new_chyron = "None" THEN [list |-> ins, exc |-> "none"]
                  ELSE Dedupe(ins, 2, new_chyron)
         IN  IF d.exc # "none"
             THEN [recent_stories |-> d.list, ticker_headlines |-> ticker, exc |-> d.exc]
             ELSE [recent_stories |-> TrimOnce(d.list),
                   ticker_headlines |->
                       IF chyrons = NoneVal THEN ticker
                       ELSE TrimAll(TickerInsert(ticker, chyrons, 1)),
                   exc |-> "none"]

\* push_hourly_summary(summary_data): a summary_data that lacks one of the
\* keys read to build the entry raises KeyError before the list is touched
PushHourlySummary(recent, complete) ==
    IF ~complete THEN [recent_stories |-> recent, exc |-> "KeyError"]
    ELSE [recent_stories |-> TrimOnce(<<SummaryEntry>> \o recent), exc |-> "none"]

\* the stories of a stories.json with n entries: one has the chyron A
Existing(n) == [k \in 1..n |-> StoryEntry(IF k = 2 THEN <<"A">> ELSE <<"O">>)]

\* the stories.json files found at import: none, an empty one, one just
\* below the cap, one at the cap, one above it
ExistingFiles == {0, StoriesCap - 1, StoriesCap, StoriesCap + 2}

\* _load_existing_stories(), called once at import: with no stories.json it
\* returns at once; otherwise every entry is appended and the lists are cut
LoadExistingStories ==
    /\ ~feed.loaded
    /\ \/ feed' = [feed EXCEPT !.loaded = TRUE]
       \/ \E n \in ExistingFiles :
            feed' = [feed EXCEPT
                !.loaded = TRUE,
                !.recent_stories = TrimAll(feed.recent_stories \o Existing(n)),
                !.ticker_headlines = IF n = 0 THEN <<>>
                                     ELSE IF n = 1 THEN <<"O">> ELSE <<"O", "A">>]
    /\ UNCHANGED <<model, file, reads, call, pilot, loader, writer, gen, ctl, poll>>

\* one call of push_script
CallPushScript ==
    /\ feed.loaded
    /\ feed.pushes < MaxPushes
    /\ \E chyrons \in ChyronLists :
        LET o == PushScript(feed.recent_stories, feed.ticker_headlines, chyrons) IN
        feed' = [feed EXCEPT !.recent_stories = o.recent_stories,
                             !.ticker_headlines = o.ticker_headlines,
                             !.pushes = @ + 1, !.exc = o.exc]
    /\ UNCHANGED <<model, file, reads, call, pilot, loader, writer, gen, ctl, poll>>

\* one call of push_hourly_summary
CallPushHourlySummary ==
    /\ feed.loaded
    /\ feed.pushes < MaxPushes
    /\ \E complete \in BOOLEAN :
        LET o == PushHourlySummary(feed.recent_stories, complete) IN
        feed' = [feed EXCEPT !.recent_stories = o.recent_stories,
                             !.pushes = @ + 1, !.exc = o.exc]
    /\ UNCHANGED <<model, file, reads, call, pilot, loader, writer, gen, ctl, poll>>

FeedNext == LoadExistingStories \/ CallPushScript \/ CallPushHourlySummary

FeedSpec == Init /\ [][FeedNext]_vars

----------------------------------------------------------------------------
(* dashboard/app.py: starting and stopping the generator thread *)

\* the request threads of the server and the generator threads created
ReqIds == 1..MaxReqs

GenIds == 1..MaxGen

\* Thread.is_alive(): started and not yet finished
IsAlive(t) == ctl.th[t] \in {"test", "body"}

\* api_generator_start, its test: with a generator thread alive the request
\* returns ok "Already running"; otherwise it goes on to clear the event
StartTest(r) ==
    /\ ctl.req[r].pc = "idle"
    /\ IF ctl.generator_thread # 0 /\ IsAlive(ctl.generator_thread)
       THEN ctl' = [ctl EXCEPT !.ok_start = TRUE]
       ELSE ctl' = [ctl EXCEPT !.req[r] = [pc |-> "clear", overlapped |-> FALSE]]
    /\ UNCHANGED <<model, file, reads, call, pilot, loader, writer, gen, feed, poll>>

\* generator_stop_event.clear()
StartClear(r) ==
    /\ ctl.req[r].pc = "clear"
    /\ ctl' = [ctl EXCEPT !.stop = FALSE, !.req[r].pc = "assign"]
    /\ UNCHANGED <<model, file, reads, call, pilot, loader, writer, gen, feed, poll>>

\* generator_thread = threading.Thread(target=_run_generator, daemon=True)
StartAssign(r) ==
    /\ ctl.req[r].pc = "assign"
    /\ \E t \in GenIds :
        /\ ctl.th[t] = "none"
        /\ \A u \in 1..(t - 1) : ctl.th[u] # "none"
        /\ ctl' = [ctl EXCEPT !.generator_thread = t, !.th[t] = "new",
                              !.req[r].pc = "run"]
    /\ UNCHANGED <<model, file, reads, call, pilot, loader, writer, gen, feed, poll>>

\* generator_thread.start() on the thread the global names now, and the
\* return of ok "Generator started"; start() on a thread another request
\* has started already raises RuntimeError and the request fails
StartRun(r) ==
    /\ ctl.req[r].pc = "run"
    /\ LET t == ctl.generator_thread IN
       IF ctl.th[t] = "new"
       THEN ctl' = [ctl EXCEPT !.th[t] = "test",
                               !.req[r] = [pc |-> "idle", overlapped |-> FALSE],
                               !.ok_start = IF ctl.req[r].overlapped THEN @ ELSE TRUE]
       ELSE ctl' = [ctl EXCEPT !.req[r] = [pc |-> "idle", overlapped |-> FALSE]]
    /\ UNCHANGED <<model, file, reads, call, pilot, loader, writer, gen, feed, poll>>

\* api_generator_stop: generator_stop_event.set().  ok_start records that a
\* start has returned ok with no stop since; a start this stop overlaps
\* does not count as one followed by no stop.
ApiGeneratorStop(r) ==
    /\ ctl.req[r].pc = "idle"
    /\ ctl' = [ctl EXCEPT
            !.stop = TRUE,
            !.ok_start = FALSE,
            !.req = [q \in ReqIds |-> [pc |-> ctl.req[q].pc,
                                       overlapped |-> ctl.req[q].pc # "idle"]]]
    /\ UNCHANGED <<model, file, reads, call, pilot, loader, writer, gen, feed, poll>>

\* _run_generator, "while not generator_stop_event.is_set()": with the event
\* set the loop ends, "Generator stopped" is pushed and the thread finishes
ThreadTest(t) ==
    /\ ctl.th[t] = "test"
    /\ ctl' = [ctl EXCEPT !.th[t] = IF ctl.stop THEN "dead" ELSE "body"]
    /\ UNCHANGED <<model, file, reads, call, pilot, loader, writer, gen, feed, poll>>

\* _run_generator, the body of the loop: back to the test after the wait,
\* or out of the loop by the break after generate_script when the event is set
ThreadBody(t) ==
    /\ ctl.th[t] = "body"
    /\ \/ ctl' = [ctl EXCEPT !.th[t] = "test"]
       \/ /\ ctl.stop
          /\ ctl' = [ctl EXCEPT !.th[t] = "dead"]
    /\ UNCHANGED <<model, file, reads, call, pilot, loader, writer, gen, feed, poll>>

CtlNext ==
    \/ \E r \in ReqIds : StartTest(r) \/ StartClear(r) \/ StartAssign(r) \/ StartRun(r)
    \/ \E r \in ReqIds : ApiGeneratorStop(r)
    \/ \E t \in GenIds : ThreadTest(t) \/ ThreadBody(t)

CtlSpec == Init /\ [][CtlNext]_vars

----------------------------------------------------------------------------
(* dashboard/app.py: the loop of _run_generator *)

\* "if stories_since_nonsense >= 6"
HeavyEvery == 6

\* "[chyron:" as re.IGNORECASE compares it
ChyronOpen == <<"[", "c", "h", "y", "r", "o", "n", ":">>

RECURSIVE SkipSpace(_, _)
\* \s* from index i: the first index that holds no whitespace
SkipSpace(s, i) ==
    IF i <= Len(s) /\ s[i] \in Whitespace THEN SkipSpace(s, i + 1) ELSE i

RECURSIVE CloseFrom(_, _)
\* the first "]" at index k or later that "." reaches, 0 if a newline or the
\* end of the text comes first
CloseFrom(s, k) ==
    IF k > Len(s) \/ s[k] = "\n" THEN 0
    ELSE IF s[k] = "]" THEN k
    ELSE CloseFrom(s, k + 1)

RECURSIVE ChyronMatch(_, _, _)
\* \s*(.+?)\] from index j with w whitespace characters left to give back:
\* <<first, last>> of the captured group and the index of "]", or <<>>
ChyronMatch(s, j, w) ==
    IF j + w <= Len(s) /\ s[j + w] # "\n" /\ CloseFrom(s, j + w + 1) > 0
    THEN <<j + w, CloseFrom(s, j + w + 1)>>
    ELSE IF w = 0 THEN <<>>
    ELSE ChyronMatch(s, j, w - 1)

RECURSIVE ExtractChyrons(_, _)
\* writer._extract_tags(script, "CHYRON") scanning from index i:
\* re.findall(r'\[CHYRON:\s*(.+?)\]', script, re.IGNORECASE)
ExtractChyrons(s, i) ==
    IF i + Len(ChyronOpen) - 1 > Len(s) THEN <<>>
    ELSE IF Lower(SubSeq(s, i, i + Len(ChyronOpen) - 1)) # ChyronOpen
         THEN ExtractChyrons(s, i + 1)
    ELSE LET j == i + Len(ChyronOpen)
             e == SkipSpace(s, j)
             m == ChyronMatch(s, j, e - j)
         IN  IF m = <<>> THEN ExtractChyrons(s, i + 1)
             ELSE <<SubSeq(s, m[1], m[2] - 1)>> \o ExtractChyrons(s, m[2] + 1)

\* the script texts the writer's model call yields in the loop: one with a
\* chyron directive and one without any
GenScripts == {Plain(1, 3) \o <<" ">> \o ChyronOpen \o <<" ", "A", "]">>, Plain(1, 3)}

\* the configurations _load_config() returns
GenConfigs == {CfgDisabled, CfgDefault}

\* the thread starts: the locals of _run_generator before the loop
GenStart ==
    /\ gen.pc = "idle"
    /\ gen' = [NoGen EXCEPT !.pc = "test"]
    /\ UNCHANGED <<model, file, reads, call, pilot, loader, writer, feed, ctl, poll>>

\* "while not generator_stop_event.is_set()" and the hourly summary check:
\* with the event set the thread is over; otherwise, when the hour has
\* changed and there are stories to summarise, the summary is published,
\* or comes to nothing, or fails with an exception the loop catches (which
\* leaves hour_stories as it is)
GenTest ==
    /\ gen.pc = "test"
    /\ IF ctl.stop
       THEN gen' = [gen EXCEPT !.pc = "stopped"] /\ UNCHANGED feed
       ELSE \/ gen' = [gen EXCEPT !.pc = "story"] /\ UNCHANGED feed
            \/ /\ gen.hour_stories > 0
               /\ \/ /\ gen' = [gen EXCEPT !.pc = "story", !.hour_stories = 0]
                     /\ feed' = [feed EXCEPT !.recent_stories =
                                    PushHourlySummary(feed.recent_stories, TRUE).recent_stories]
                  \/ /\ gen' = [gen EXCEPT !.pc = "story", !.hour_stories = 0]
                     /\ UNCHANGED feed
                  \/ /\ gen' = [gen EXCEPT !.pc = "story", !.caught = "SummaryError"]
                     /\ UNCHANGED feed
    /\ UNCHANGED <<model, file, reads, call, pilot, loader, writer, ctl, poll>>

\* the story block up to the return of generate_script: an exception of
\* generate_script is caught by the loop, which goes on to the wait and
\* the next test
GenWrite ==
    /\ gen.pc = "story"
    /\ Len(gen.heavy) < MaxStories
    /\ \E script_text \in GenScripts, config \in GenConfigs :
       \E g \in GenerateScript(script_text, config, model, file) :
          /\ reads + g.opened <= MaxReads
          /\ model' = g.model
          /\ reads' = reads + g.opened
          /\ IF g.exc # "none"
             THEN gen' = [gen EXCEPT !.pc = "test", !.config = config,
                                     !.caught = g.exc]
             ELSE gen' = [gen EXCEPT !.pc = "written", !.config = config,
                                     !.caught = "none",
                                     !.script = g.script_data.script]
    /\ UNCHANGED <<file, call, pilot, loader, writer, feed, ctl, poll>>

\* the story block after generate_script has returned, on the locals g of
\* the thread, the lists rs and tk of the dashboard, the stop event and the
\* model cache: the break on the stop event; the counter, the heavy
\* nonsense of every 6th story and the reset of the counter; push_script;
\* the bookkeeping of the hour.  An exception of inject_heavy_nonsense or of
\* push_script is caught by the loop and ends the block where it is raised.
Publish(g, rs, tk, stop, mdl, f) ==
    IF stop
    THEN [gen |-> [g EXCEPT !.pc = "stopped"], recent_stories |-> rs,
          ticker_headlines |-> tk, model |-> mdl, opened |-> 0]
    ELSE LET n == g.stories_since_nonsense + 1
             due == n >= HeavyEvery
             h == IF due THEN HeavyNonsense(g.script, g.config, mdl, f)
                  ELSE [exc |-> "none", script |-> g.script, replaced |-> 0,
                        model |-> mdl, opened |-> 0]
         IN  IF h.exc # "none"
             THEN [gen |-> [g EXCEPT !.pc = "test", !.stories_since_nonsense = n,
                                     !.caught = h.exc, !.heavy = Append(@, FALSE)],
                   recent_stories |-> rs, ticker_headlines |-> tk,
                   model |-> h.model, opened |-> h.opened]
             ELSE LET p == PushScript(rs, tk, ExtractChyrons(g.script, 1)) IN
                  [gen |-> [g EXCEPT !.pc = "test",
                                     !.stories_since_nonsense = IF due THEN 0 ELSE n,
                                     !.caught = p.exc,
                                     !.hour_stories = IF p.exc = "none" THEN @ + 1 ELSE @,
                                     !.heavy = Append(@, due)],
                   recent_stories |-> p.recent_stories,
                   ticker_headlines |-> p.ticker_headlines,
                   model |-> h.model, opened |-> h.opened]

\* the rest of the story block, and the wait before the next test
GenPublish ==
    /\ gen.pc = "written"
    /\ LET o == Publish(gen, feed.recent_stories, feed.ticker_headlines,
                        ctl.stop, model, file)
       IN  /\ reads + o.opened <= MaxReads
           /\ gen' = o.gen
           /\ feed' = [feed EXCEPT !.recent_stories = o.recent_stories,
                                   !.ticker_headlines = o.ticker_headlines]
           /\ model' = o.model
           /\ reads' = reads + o.opened
    /\ UNCHANGED <<file, call, pilot, loader, writer, ctl, poll>>

\* a stop request arrives while the generator runs
GenStop == \E r \in ReqIds : ApiGeneratorStop(r)

GenNext == GenStart \/ GenTest \/ GenWrite \/ GenPublish \/ GenStop

GenSpec == Init /\ [][GenNext]_vars

----------------------------------------------------------------------------
(* writer.generate_script: the retry loop and the post-processing *)

MIN_WORDS == 60

MAX_WORDS == 75

MAX_RETRIES == 3

\* _fix_capitalization: the acronyms that must be fully capitalized
acronyms == <<
    <<"E", "P", "A">>, <<"F", "B", "I">>, <<"F", "E", "M", "A">>, <<"D", "H", "S">>,
    <<"F", "A", "A">>, <<"N", "L", "R", "B">>, <<"A", "C", "L", "U">>, <<"N", "A", "T", "O">>,
    <<"F", "D", "A">>, <<"C", "D", "C">>, <<"D", "O", "D">>, <<"D", "O", "E">>,
    <<"H", "U", "D">>, <<"S", "E", "C">>, <<"C", "I", "A">>, <<"N", "S", "A">>,
    <<"T", "S", "A">>, <<"I", "C", "E">>, <<"O", "S", "H", "A">>, <<"I", "R", "S">>,
    <<"D", "O", "J">>, <<"A", "T", "F">>, <<"D", "E", "A">>, <<"N", "T", "S", "B">>,
    <<"U", "S", "D", "A">>, <<"F", "C", "C">>, <<"F", "T", "C">>, <<"N", "I", "H">>,
    <<"N", "O", "A", "A">>, <<"N", "A", "S", "A">>, <<"F", "I", "S", "A">>,
    <<"N", "A", "F", "T", "A">>, <<"U", "S", "M", "C", "A">>, <<"G", "D", "P">>,
    <<"G", "N", "P">>, <<"C", "E", "O">>, <<"C", "F", "O">>, <<"C", "O", "O">>,
    <<"C", "T", "O">>, <<"H", "H", "S">>, <<"S", "C", "O", "T", "U", "S">>,
    <<"P", "O", "T", "U", "S">>, <<"D", "O", "T">>, <<"U", "S", "P", "S">>, <<"I", "C", "J">>,
    <<"I", "M", "F">>, <<"N", "Y", "P", "D">>, <<"L", "A", "P", "D">>, <<"I", "P", "O">>,
    <<"N", "Y", "S", "E">>, <<"N", "A", "S", "D", "A", "Q">>, <<"U", "S", "C", "I", "S">>,
    <<"C", "B", "P">>, <<"S", "B", "A">>, <<"G", "S", "A">>, <<"O", "P", "M">>,
    <<"G", "A", "O">>, <<"C", "B", "O">>, <<"O", "M", "B">>, <<"N", "R", "C">> >>

\* _fix_capitalization: the acronyms fixed only in their mixed-case form
risky_acronyms == <<
    <<"V", "A">>, <<"W", "H", "O">>, <<"U", "N">>, <<"E", "U">>, <<"A", "I">> >>

\* _fix_capitalization: (lowercase pattern, correct form)
proper_nouns == <<
    <<<<"u", "n", "i", "t", "e", "d", " ", "s", "t", "a", "t", "e", "s">>,
     <<"U", "n", "i", "t", "e", "d", " ", "S", "t", "a", "t", "e", "s">>>>,
    <<<<"s", "o", "u", "t", "h", " ", "k", "o", "r", "e", "a">>,
     <<"S", "o", "u", "t", "h", " ", "K", "o", "r", "e", "a">>>>,
    <<<<"n", "o", "r", "t", "h", " ", "k", "o", "r", "e", "a">>,
     <<"N", "o", "r", "t", "h", " ", "K", "o", "r", "e", "a">>>>,
    <<<<"u", "n", "i", "t", "e", "d", " ", "k", "i", "n", "g", "d", "o", "m">>,
     <<"U", "n", "i", "t", "e", "d", " ", "K", "i", "n", "g", "d", "o", "m">>>>,
    <<<<"s", "a", "u", "d", "i", " ", "a", "r", "a", "b", "i", "a">>,
     <<"S", "a", "u", "d", "i", " ", "A", "r", "a", "b", "i", "a">>>>,
    <<<<"n", "e", "w", " ", "z", "e", "a", "l", "a", "n", "d">>,
     <<"N", "e", "w", " ", "Z", "e", "a", "l", "a", "n", "d">>>>,
    <<<<"s", "o", "u", "t", "h", " ", "a", "f", "r", "i", "c", "a">>,
     <<"S", "o", "u", "t", "h", " ", "A", "f", "r", "i", "c", "a">>>>,
    <<<<"p", "u", "e", "r", "t", "o", " ", "r", "i", "c", "o">>,
     <<"P", "u", "e", "r", "t", "o", " ", "R", "i", "c", "o">>>>,
    <<<<"c", "o", "s", "t", "a", " ", "r", "i", "c", "a">>,
     <<"C", "o", "s", "t", "a", " ", "R", "i", "c", "a">>>>,
    <<<<"e", "l", " ", "s", "a", "l", "v", "a", "d", "o", "r">>,
     <<"E", "l", " ", "S", "a", "l", "v", "a", "d", "o", "r">>>>,
    <<<<"s", "r", "i", " ", "l", "a", "n", "k", "a">>,
     <<"S", "r", "i", " ", "L", "a", "n", "k", "a">>>>,
    <<<<"h", "o", "n", "g", " ", "k", "o", "n", "g">>,
     <<"H", "o", "n", "g", " ", "K", "o", "n", "g">>>>,
    <<<<"n", "e", "w", " ", "y", "o", "r", "k">>,
     <<"N", "e", "w", " ", "Y", "o", "r", "k">>>>,
    <<<<"l", "o", "s", " ", "a", "n", "g", "e", "l", "e", "s">>,
     <<"L", "o", "s", " ", "A", "n", "g", "e", "l", "e", "s">>>>,
    <<<<"s", "a", "n", " ", "f", "r", "a", "n", "c", "i", "s", "c", "o">>,
     <<"S", "a", "n", " ", "F", "r", "a", "n", "c", "i", "s", "c", "o">>>>,
    <<<<"w", "a", "s", "h", "i", "n", "g", "t", "o", "n", " ", "d", ".", "c", ".">>,
     <<"W", "a", "s", "h", "i", "n", "g", "t", "o", "n", " ", "D", ".", "C", ".">>>>,
    <<<<"n", "e", "w", " ", "h", "a", "m", "p", "s", "h", "i", "r", "e">>,
     <<"N", "e", "w", " ", "H", "a", "m", "p", "s", "h", "i", "r", "e">>>>,
    <<<<"n", "e", "w", " ", "j", "e", "r", "s", "e", "y">>,
     <<"N", "e", "w", " ", "J", "e", "r", "s", "e", "y">>>>,
    <<<<"n", "e", "w", " ", "m", "e", "x", "i", "c", "o">>,
     <<"N", "e", "w", " ", "M", "e", "x", "i", "c", "o">>>>,
    <<<<"r", "h", "o", "d", "e", " ", "i", "s", "l", "a", "n", "d">>,
     <<"R", "h", "o", "d", "e", " ", "I", "s", "l", "a", "n", "d">>>>,
    <<<<"w", "e", "s", "t", " ", "v", "i", "r", "g", "i", "n", "i", "a">>,
     <<"W", "e", "s", "t", " ", "V", "i", "r", "g", "i", "n", "i", "a">>>>,
    <<<<"s", "o", "u", "t", "h", " ", "c", "a", "r", "o", "l", "i", "n", "a">>,
     <<"S", "o", "u", "t", "h", " ", "C", "a", "r", "o", "l", "i", "n", "a">>>>,
    <<<<"n", "o", "r", "t", "h", " ", "c", "a", "r", "o", "l", "i", "n", "a">>,
     <<"N", "o", "r", "t", "h", " ", "C", "a", "r", "o", "l", "i", "n", "a">>>>,
    <<<<"s", "o", "u", "t", "h", " ", "d", "a", "k", "o", "t", "a">>,
     <<"S", "o", "u", "t", "h", " ", "D", "a", "k", "o", "t", "a">>>>,
    <<<<"n", "o", "r", "t", "h", " ", "d", "a", "k", "o", "t", "a">>,
     <<"N", "o", "r", "t", "h", " ", "D", "a", "k", "o", "t", "a">>>>,
    <<<<"s", "a", "n", " ", "a", "n", "t", "o", "n", "i", "o">>,
     <<"S", "a", "n", " ", "A", "n", "t", "o", "n", "i", "o">>>>,
    <<<<"s", "a", "n", " ", "d", "i", "e", "g", "o">>,
     <<"S", "a", "n", " ", "D", "i", "e", "g", "o">>>>,
    <<<<"l", "a", "s", " ", "v", "e", "g", "a", "s">>,
     <<"L", "a", "s", " ", "V", "e", "g", "a", "s">>>>,
    <<<<"d", "e", "s", " ", "m", "o", "i", "n", "e", "s">>,
     <<"D", "e", "s", " ", "M", "o", "i", "n", "e", "s">>>>,
    <<<<"e", "l", " ", "p", "a", "s", "o">>,
     <<"E", "l", " ", "P", "a", "s", "o">>>>,
    <<<<"b", "a", "t", "o", "n", " ", "r", "o", "u", "g", "e">>,
     <<"B", "a", "t", "o", "n", " ", "R", "o", "u", "g", "e">>>>,
    <<<<"s", "t", ".", " ", "l", "o", "u", "i", "s">>,
     <<"S", "t", ".", " ", "L", "o", "u", "i", "s">>>>,
    <<<<"s", "a", "l", "t", " ", "l", "a", "k", "e", " ", "c", "i", "t", "y">>,
     <<"S", "a", "l", "t", " ", "L", "a", "k", "e", " ", "C", "i", "t", "y">>>>,
    <<<<"f", "o", "r", "t", " ", "w", "o", "r", "t", "h">>,
     <<"F", "o", "r", "t", " ", "W", "o", "r", "t", "h">>>>,
    <<<<"l", "i", "t", "t", "l", "e", " ", "r", "o", "c", "k">>,
     <<"L", "i", "t", "t", "l", "e", " ", "R", "o", "c", "k">>>>,
    <<<<"g", "r", "a", "n", "d", " ", "r", "a", "p", "i", "d", "s">>,
     <<"G", "r", "a", "n", "d", " ", "R", "a", "p", "i", "d", "s">>>>,
    <<<<"c", "o", "r", "p", "u", "s", " ", "c", "h", "r", "i", "s", "t", "i">>,
     <<"C", "o", "r", "p", "u", "s", " ", "C", "h", "r", "i", "s", "t", "i">>>>,
    <<<<"d", "e", "p", "a", "r", "t", "m", "e", "n", "t", " ", "o", "f", " ", "e", "n", "e", "r", "g", "y">>,
     <<"D", "e", "p", "a", "r", "t", "m", "e", "n", "t", " ", "o", "f", " ", "E", "n", "e", "r", "g", "y">>>>,
    <<<<"d", "e", "p", "a", "r", "t", "m", "e", "n", "t", " ", "o", "f", " ", "e", "d", "u", "c", "a", "t", "i", "o", "n">>,
     <<"D", "e", "p", "a", "r", "t", "m", "e", "n", "t", " ", "o", "f", " ", "E", "d", "u", "c", "a", "t", "i", "o", "n">>>>,
    <<<<"d", "e", "p", "a", "r", "t", "m", "e", "n", "t", " ", "o", "f", " ", "j", "u", "s", "t", "i", "c", "e">>,
     <<"D", "e", "p", "a", "r", "t", "m", "e", "n", "t", " ", "o", "f", " ", "J", "u", "s", "t", "i", "c", "e">>>>,
    <<<<"d", "e", "p", "a", "r", "t", "m", "e", "n", "t", " ", "o", "f", " ", "d", "e", "f", "e", "n", "s", "e">>,
     <<"D", "e", "p", "a", "r", "t", "m", "e", "n", "t", " ", "o", "f", " ", "D", "e", "f", "e", "n", "s", "e">>>>,
    <<<<"d", "e", "p", "a", "r", "t", "m", "e", "n", "t", " ", "o", "f", " ", "h", "o", "m", "e", "l", "a", "n", "d", " ", "s", "e", "c", "u", "r", "i", "t", "y">>,
     <<"D", "e", "p", "a", "r", "t", "m", "e", "n", "t", " ", "o", "f", " ", "H", "o", "m", "e", "l", "a", "n", "d", " ", "S", "e", "c", "u", "r", "i", "t", "y">>>>,
    <<<<"d", "e", "p", "a", "r", "t", "m", "e", "n", "t", " ", "o", "f", " ", "t", "r", "a", "n", "s", "p", "o", "r", "t", "a", "t", "i", "o", "n">>,
     <<"D", "e", "p", "a", "r", "t", "m", "e", "n", "t", " ", "o", "f", " ", "T", "r", "a", "n", "s", "p", "o", "r", "t", "a", "t", "i", "o", "n">>>>,
    <<<<"d", "e", "p", "a", "r", "t", "m", "e", "n", "t", " ", "o", "f", " ", "s", "t", "a", "t", "e">>,
     <<"D", "e", "p", "a", "r", "t", "m", "e", "n", "t", " ", "o", "f", " ", "S", "t", "a", "t", "e">>>>,
    <<<<"d", "e", "p", "a", "r", "t", "m", "e", "n", "t", " ", "o", "f", " ", "l", "a", "b", "o", "r">>,
     <<"D", "e", "p", "a", "r", "t", "m", "e", "n", "t", " ", "o", "f", " ", "L", "a", "b", "o", "r">>>>,
    <<<<"d", "e", "p", "a", "r", "t", "m", "e", "n", "t", " ", "o", "f", " ", "a", "g", "r", "i", "c", "u", "l", "t", "u", "r", "e">>,
     <<"D", "e", "p", "a", "r", "t", "m", "e", "n", "t", " ", "o", "f", " ", "A", "g", "r", "i", "c", "u", "l", "t", "u", "r", "e">>>>,
    <<<<"d", "e", "p", "a", "r", "t", "m", "e", "n", "t", " ", "o", "f", " ", "c", "o", "m", "m", "e", "r", "c", "e">>,
     <<"D", "e", "p", "a", "r", "t", "m", "e", "n", "t", " ", "o", "f", " ", "C", "o", "m", "m", "e", "r", "c", "e">>>>,
    <<<<"d", "e", "p", "a", "r", "t", "m", "e", "n", "t", " ", "o", "f", " ", "h", "e", "a", "l", "t", "h", " ", "a", "n", "d", " ", "h", "u", "m", "a", "n", " ", "s", "e", "r", "v", "i", "c", "e", "s">>,
     <<"D", "e", "p", "a", "r", "t", "m", "e", "n", "t", " ", "o", "f", " ", "H", "e", "a", "l", "t", "h", " ", "a", "n", "d", " ", "H", "u", "m", "a", "n", " ", "S", "e", "r", "v", "i", "c", "e", "s">>>>,
    <<<<"d", "e", "p", "a", "r", "t", "m", "e", "n", "t", " ", "o", "f", " ", "h", "o", "u", "s", "i", "n", "g", " ", "a", "n", "d", " ", "u", "r", "b", "a", "n", " ", "d", "e", "v", "e", "l", "o", "p", "m", "e", "n", "t">>,
     <<"D", "e", "p", "a", "r", "t", "m", "e", "n", "t", " ", "o", "f", " ", "H", "o", "u", "s", "i", "n", "g", " ", "a", "n", "d", " ", "U", "r", "b", "a", "n", " ", "D", "e", "v", "e", "l", "o", "p", "m", "e", "n", "t">>>>,
    <<<<"d", "e", "p", "a", "r", "t", "m", "e", "n", "t", " ", "o", "f", " ", "t", "h", "e", " ", "i", "n", "t", "e", "r", "i", "o", "r">>,
     <<"D", "e", "p", "a", "r", "t", "m", "e", "n", "t", " ", "o", "f", " ", "t", "h", "e", " ", "I", "n", "t", "e", "r", "i", "o", "r">>>>,
    <<<<"d", "e", "p", "a", "r", "t", "m", "e", "n", "t", " ", "o", "f", " ", "t", "h", "e", " ", "t", "r", "e", "a", "s", "u", "r", "y">>,
     <<"D", "e", "p", "a", "r", "t", "m", "e", "n", "t", " ", "o", "f", " ", "t", "h", "e", " ", "T", "r", "e", "a", "s", "u", "r", "y">>>>,
    <<<<"d", "e", "p", "a", "r", "t", "m", "e", "n", "t", " ", "o", "f", " ", "v", "e", "t", "e", "r", "a", "n", "s", " ", "a", "f", "f", "a", "i", "r", "s">>,
     <<"D", "e", "p", "a", "r", "t", "m", "e", "n", "t", " ", "o", "f", " ", "V", "e", "t", "e", "r", "a", "n", "s", " ", "A", "f", "f", "a", "i", "r", "s">>>>,
    <<<<"e", "n", "v", "i", "r", "o", "n", "m", "e", "n", "t", "a", "l", " ", "p", "r", "o", "t", "e", "c", "t", "i", "o", "n", " ", "a", "g", "e", "n", "c", "y">>,
     <<"E", "n", "v", "i", "r", "o", "n", "m", "e", "n", "t", "a", "l", " ", "P", "r", "o", "t", "e", "c", "t", "i", "o", "n", " ", "A", "g", "e", "n", "c", "y">>>>,
    <<<<"f", "e", "d", "e", "r", "a", "l", " ", "a", "v", "i", "a", "t", "i", "o", "n", " ", "a", "d", "m", "i", "n", "i", "s", "t", "r", "a", "t", "i", "o", "n">>,
     <<"F", "e", "d", "e", "r", "a", "l", " ", "A", "v", "i", "a", "t", "i", "o", "n", " ", "A", "d", "m", "i", "n", "i", "s", "t", "r", "a", "t", "i", "o", "n">>>>,
    <<<<"f", "e", "d", "e", "r", "a", "l", " ", "t", "r", "a", "d", "e", " ", "c", "o", "m", "m", "i", "s", "s", "i", "o", "n">>,
     <<"F", "e", "d", "e", "r", "a", "l", " ", "T", "r", "a", "d", "e", " ", "C", "o", "m", "m", "i", "s", "s", "i", "o", "n">>>>,
    <<<<"f", "e", "d", "e", "r", "a", "l", " ", "b", "u", "r", "e", "a", "u", " ", "o", "f", " ", "i", "n", "v", "e", "s", "t", "i", "g", "a", "t", "i", "o", "n">>,
     <<"F", "e", "d", "e", "r", "a", "l", " ", "B", "u", "r", "e", "a", "u", " ", "o", "f", " ", "I", "n", "v", "e", "s", "t", "i", "g", "a", "t", "i", "o", "n">>>>,
    <<<<"f", "e", "d", "e", "r", "a", "l", " ", "c", "o", "m", "m", "u", "n", "i", "c", "a", "t", "i", "o", "n", "s", " ", "c", "o", "m", "m", "i", "s", "s", "i", "o", "n">>,
     <<"F", "e", "d", "e", "r", "a", "l", " ", "C", "o", "m", "m", "u", "n", "i", "c", "a", "t", "i", "o", "n", "s", " ", "C", "o", "m", "m", "i", "s", "s", "i", "o", "n">>>>,
    <<<<"f", "e", "d", "e", "r", "a", "l", " ", "e", "m", "e", "r", "g", "e", "n", "c", "y", " ", "m", "a", "n", "a", "g", "e", "m", "e", "n", "t", " ", "a", "g", "e", "n", "c", "y">>,
     <<"F", "e", "d", "e", "r", "a", "l", " ", "E", "m", "e", "r", "g", "e", "n", "c", "y", " ", "M", "a", "n", "a", "g", "e", "m", "e", "n", "t", " ", "A", "g", "e", "n", "c", "y">>>>,
    <<<<"n", "a", "t", "i", "o", "n", "a", "l", " ", "w", "e", "a", "t", "h", "e", "r", " ", "s", "e", "r", "v", "i", "c", "e">>,
     <<"N", "a", "t", "i", "o", "n", "a", "l", " ", "W", "e", "a", "t", "h", "e", "r", " ", "S", "e", "r", "v", "i", "c", "e">>>>,
    <<<<"n", "a", "t", "i", "o", "n", "a", "l", " ", "s", "e", "c", "u", "r", "i", "t", "y", " ", "a", "g", "e", "n", "c", "y">>,
     <<"N", "a", "t", "i", "o", "n", "a", "l", " ", "S", "e", "c", "u", "r", "i", "t", "y", " ", "A", "g", "e", "n", "c", "y">>>>,
    <<<<"s", "e", "c", "u", "r", "i", "t", "i", "e", "s", " ", "a", "n", "d", " ", "e", "x", "c", "h", "a", "n", "g", "e", " ", "c", "o", "m", "m", "i", "s", "s", "i", "o", "n">>,
     <<"S", "e", "c", "u", "r", "i", "t", "i", "e", "s", " ", "a", "n", "d", " ", "E", "x", "c", "h", "a", "n", "g", "e", " ", "C", "o", "m", "m", "i", "s", "s", "i", "o", "n">>>>,
    <<<<"f", "o", "o", "d", " ", "a", "n", "d", " ", "d", "r", "u", "g", " ", "a", "d", "m", "i", "n", "i", "s", "t", "r", "a", "t", "i", "o", "n">>,
     <<"F", "o", "o", "d", " ", "a", "n", "d", " ", "D", "r", "u", "g", " ", "A", "d", "m", "i", "n", "i", "s", "t", "r", "a", "t", "i", "o", "n">>>>,
    <<<<"c", "e", "n", "t", "e", "r", "s", " ", "f", "o", "r", " ", "d", "i", "s", "e", "a", "s", "e", " ", "c", "o", "n", "t", "r", "o", "l">>,
     <<"C", "e", "n", "t", "e", "r", "s", " ", "f", "o", "r", " ", "D", "i", "s", "e", "a", "s", "e", " ", "C", "o", "n", "t", "r", "o", "l">>>>,
    <<<<"n", "a", "t", "i", "o", "n", "a", "l", " ", "l", "a", "b", "o", "r", " ", "r", "e", "l", "a", "t", "i", "o", "n", "s", " ", "b", "o", "a", "r", "d">>,
     <<"N", "a", "t", "i", "o", "n", "a", "l", " ", "L", "a", "b", "o", "r", " ", "R", "e", "l", "a", "t", "i", "o", "n", "s", " ", "B", "o", "a", "r", "d">>>>,
    <<<<"n", "a", "t", "i", "o", "n", "a", "l", " ", "t", "r", "a", "n", "s", "p", "o", "r", "t", "a", "t", "i", "o", "n", " ", "s", "a", "f", "e", "t", "y", " ", "b", "o", "a", "r", "d">>,
     <<"N", "a", "t", "i", "o", "n", "a", "l", " ", "T", "r", "a", "n", "s", "p", "o", "r", "t", "a", "t", "i", "o", "n", " ", "S", "a", "f", "e", "t", "y", " ", "B", "o", "a", "r", "d">>>>,
    <<<<"i", "n", "t", "e", "r", "n", "a", "l", " ", "r", "e", "v", "e", "n", "u", "e", " ", "s", "e", "r", "v", "i", "c", "e">>,
     <<"I", "n", "t", "e", "r", "n", "a", "l", " ", "R", "e", "v", "e", "n", "u", "e", " ", "S", "e", "r", "v", "i", "c", "e">>>>,
    <<<<"b", "u", "r", "e", "a", "u", " ", "o", "f", " ", "a", "l", "c", "o", "h", "o", "l", ",", " ", "t", "o", "b", "a", "c", "c", "o", ",", " ", "f", "i", "r", "e", "a", "r", "m", "s">>,
     <<"B", "u", "r", "e", "a", "u", " ", "o", "f", " ", "A", "l", "c", "o", "h", "o", "l", ",", " ", "T", "o", "b", "a", "c", "c", "o", ",", " ", "F", "i", "r", "e", "a", "r", "m", "s">>>>,
    <<<<"d", "r", "u", "g", " ", "e", "n", "f", "o", "r", "c", "e", "m", "e", "n", "t", " ", "a", "d", "m", "i", "n", "i", "s", "t", "r", "a", "t", "i", "o", "n">>,
     <<"D", "r", "u", "g", " ", "E", "n", "f", "o", "r", "c", "e", "m", "e", "n", "t", " ", "A", "d", "m", "i", "n", "i", "s", "t", "r", "a", "t", "i", "o", "n">>>>,
    <<<<"o", "c", "c", "u", "p", "a", "t", "i", "o", "n", "a", "l", " ", "s", "a", "f", "e", "t", "y", " ", "a", "n", "d", " ", "h", "e", "a", "l", "t", "h", " ", "a", "d", "m", "i", "n", "i", "s", "t", "r", "a", "t", "i", "o", "n">>,
     <<"O", "c", "c", "u", "p", "a", "t", "i", "o", "n", "a", "l", " ", "S", "a", "f", "e", "t", "y", " ", "a", "n", "d", " ", "H", "e", "a", "l", "t", "h", " ", "A", "d", "m", "i", "n", "i", "s", "t", "r", "a", "t", "i", "o", "n">>>> >>

\* _REAL_PEOPLE_MAP: real name, fictional replacement, in the order of the dict
REAL_PEOPLE_MAP == <<
    <<<<"M", "a", "r", "c", "o", " ", "R", "u", "b", "i", "o">>,
     <<"D", "i", "a", "n", "e", " ", "M", "e", "r", "c", "e", "r">>>>,
    <<<<"M", "i", "t", "c", "h", " ", "M", "c", "C", "o", "n", "n", "e", "l", "l">>,
     <<"R", "i", "c", "h", "a", "r", "d", " ", "H", "a", "l", "d", "a", "n", "e">>>>,
    <<<<"C", "h", "u", "c", "k", " ", "S", "c", "h", "u", "m", "e", "r">>,
     <<"L", "e", "o", "n", "a", "r", "d", " ", "P", "r", "a", "t", "t">>>>,
    <<<<"N", "a", "n", "c", "y", " ", "P", "e", "l", "o", "s", "i">>,
     <<"M", "a", "r", "g", "a", "r", "e", "t", " ", "A", "s", "h", "w", "o", "r", "t", "h">>>>,
    <<<<"K", "e", "v", "i", "n", " ", "M", "c", "C", "a", "r", "t", "h", "y">>,
     <<"G", "e", "r", "a", "l", "d", " ", "T", "a", "f", "t">>>>,
    <<<<"M", "i", "k", "e", " ", "J", "o", "h", "n", "s", "o", "n">>,
     <<"D", "o", "u", "g", "l", "a", "s", " ", "C", "r", "a", "n", "e">>>>,
    <<<<"H", "a", "k", "e", "e", "m", " ", "J", "e", "f", "f", "r", "i", "e", "s">>,
     <<"W", "a", "r", "r", "e", "n", " ", "E", "l", "l", "i", "s", "o", "n">>>>,
    <<<<"P", "e", "t", "e", " ", "B", "u", "t", "t", "i", "g", "i", "e", "g">>,
     <<"T", "h", "o", "m", "a", "s", " ", "H", "a", "d", "l", "e", "y">>>>,
    <<<<"M", "e", "r", "r", "i", "c", "k", " ", "G", "a", "r", "l", "a", "n", "d">>,
     <<"L", "a", "w", "r", "e", "n", "c", "e", " ", "B", "e", "c", "k", "e", "t", "t">>>>,
    <<<<"L", "l", "o", "y", "d", " ", "A", "u", "s", "t", "i", "n">>,
     <<"K", "e", "n", "n", "e", "t", "h", " ", "A", "l", "d", "r", "i", "d", "g", "e">>>>,
    <<<<"J", "a", "n", "e", "t", " ", "Y", "e", "l", "l", "e", "n">>,
     <<"C", "a", "t", "h", "e", "r", "i", "n", "e", " ", "A", "i", "n", "s", "l", "e", "y">>>>,
    <<<<"A", "n", "t", "o", "n", "y", " ", "B", "l", "i", "n", "k", "e", "n">>,
     <<"P", "h", "i", "l", "i", "p", " ", "N", "a", "v", "a", "r", "r", "o">>>>,
    <<<<"G", "i", "n", "a", " ", "R", "a", "i", "m", "o", "n", "d", "o">>,
     <<"V", "a", "l", "e", "r", "i", "e", " ", "C", "h", "a", "l", "m", "e", "r", "s">>>>,
    <<<<"M", "i", "g", "u", "e", "l", " ", "C", "a", "r", "d", "o", "n", "a">>,
     <<"R", "o", "b", "e", "r", "t", " ", "E", "s", "t", "r", "a", "d", "a">>>>,
    <<<<"A", "l", "e", "j", "a", "n", "d", "r", "o", " ", "M", "a", "y", "o", "r", "k", "a", "s">>,
     <<"V", "i", "n", "c", "e", "n", "t", " ", "D", "o", "r", "a", "d", "o">>>>,
    <<<<"D", "e", "b", " ", "H", "a", "a", "l", "a", "n", "d">>,
     <<"S", "a", "n", "d", "r", "a", " ", "W", "h", "i", "t", "f", "i", "e", "l", "d">>>>,
    <<<<"T", "o", "m", " ", "V", "i", "l", "s", "a", "c", "k">>,
     <<"H", "a", "r", "o", "l", "d", " ", "B", "r", "e", "n", "n", "a", "n">>>>,
    <<<<"D", "e", "n", "i", "s", " ", "M", "c", "D", "o", "n", "o", "u", "g", "h">>,
     <<"P", "a", "t", "r", "i", "c", "k", " ", "C", "a", "l", "l", "o", "w", "a", "y">>>>,
    <<<<"X", "a", "v", "i", "e", "r", " ", "B", "e", "c", "e", "r", "r", "a">>,
     <<"D", "a", "n", "i", "e", "l", " ", "M", "o", "n", "t", "o", "y", "a">>>>,
    <<<<"M", "i", "c", "h", "a", "e", "l", " ", "R", "e", "g", "a", "n">>,
     <<"J", "a", "m", "e", "s", " ", "C", "o", "r", "t", "l", "a", "n", "d">>>>,
    <<<<"J", "e", "n", " ", "P", "s", "a", "k", "i">>,
     <<"K", "a", "r", "e", "n", " ", "L", "i", "n", "d", "s", "e", "y">>>>,
    <<<<"K", "a", "r", "i", "n", "e", " ", "J", "e", "a", "n", "-", "P", "i", "e", "r", "r", "e">>,
     <<"M", "i", "c", "h", "e", "l", "l", "e", " ", "G", "a", "s", "t", "o", "n">>>>,
    <<<<"R", "o", "n", " ", "D", "e", "S", "a", "n", "t", "i", "s">>,
     <<"D", "a", "v", "i", "d", " ", "C", "a", "l", "d", "w", "e", "l", "l">>>>,
    <<<<"G", "a", "v", "i", "n", " ", "N", "e", "w", "s", "o", "m">>,
     <<"A", "n", "d", "r", "e", "w", " ", "S", "h", "e", "f", "f", "i", "e", "l", "d">>>>,
    <<<<"G", "r", "e", "g", " ", "A", "b", "b", "o", "t", "t">>,
     <<"W", "i", "l", "l", "i", "a", "m", " ", "L", "a", "n", "d", "e", "r", "s">>>>,
    <<<<"D", "o", "n", "a", "l", "d", " ", "T", "r", "u", "m", "p">>,
     <<"t", "h", "e", " ", "P", "r", "e", "s", "i", "d", "e", "n", "t">>>>,
    <<<<"J", "D", " ", "V", "a", "n", "c", "e">>,
     <<"t", "h", "e", " ", "V", "i", "c", "e", " ", "P", "r", "e", "s", "i", "d", "e", "n", "t">>>>,
    <<<<"J", "o", "e", " ", "B", "i", "d", "e", "n">>,
     <<"t", "h", "e", " ", "f", "o", "r", "m", "e", "r", " ", "P", "r", "e", "s", "i", "d", "e", "n", "t">>>>,
    <<<<"K", "a", "m", "a", "l", "a", " ", "H", "a", "r", "r", "i", "s">>,
     <<"t", "h", "e", " ", "f", "o", "r", "m", "e", "r", " ", "V", "i", "c", "e", " ", "P", "r", "e", "s", "i", "d", "e", "n", "t">>>>,
    <<<<"E", "l", "o", "n", " ", "M", "u", "s", "k">>,
     <<"R", "o", "l", "a", "n", "d", " ", "V", "o", "s", "s">>>>,
    <<<<"M", "a", "r", "k", " ", "Z", "u", "c", "k", "e", "r", "b", "e", "r", "g">>,
     <<"N", "a", "t", "h", "a", "n", " ", "B", "r", "o", "w", "e", "r">>>>,
    <<<<"J", "e", "f", "f", " ", "B", "e", "z", "o", "s">>,
     <<"C", "l", "a", "r", "k", "e", " ", "W", "h", "i", "t", "m", "o", "r", "e">>>>,
    <<<<"T", "i", "m", " ", "C", "o", "o", "k">>,
     <<"E", "d", "w", "a", "r", "d", " ", "L", "a", "n", "g", "f", "o", "r", "d">>>>,
    <<<<"S", "u", "n", "d", "a", "r", " ", "P", "i", "c", "h", "a", "i">>,
     <<"R", "a", "j", "i", "v", " ", "A", "n", "a", "n", "d">>>>,
    <<<<"S", "a", "t", "y", "a", " ", "N", "a", "d", "e", "l", "l", "a">>,
     <<"A", "r", "j", "u", "n", " ", "P", "a", "t", "e", "l">>>>,
    <<<<"S", "a", "m", " ", "A", "l", "t", "m", "a", "n">>,
     <<"D", "e", "r", "e", "k", " ", "C", "a", "l", "l", "o", "w", "a", "y">>>>,
    <<<<"J", "a", "m", "i", "e", " ", "D", "i", "m", "o", "n">>,
     <<"F", "r", "e", "d", "e", "r", "i", "c", "k", " ", "N", "a", "s", "h">>>> >>

\* _REAL_COMPANIES_MAP: real company, fictional replacement, in the order of the dict
REAL_COMPANIES_MAP == <<
    <<<<"B", "o", "e", "i", "n", "g">>,
     <<"M", "e", "r", "i", "d", "i", "a", "n", " ", "A", "e", "r", "o", "s", "p", "a", "c", "e">>>>,
    <<<<"A", "m", "a", "z", "o", "n">>,
     <<"C", "r", "e", "s", "t", "l", "i", "n", "e", " ", "L", "o", "g", "i", "s", "t", "i", "c", "s">>>>,
    <<<<"G", "o", "o", "g", "l", "e">>,
     <<"N", "e", "x", "a", "g", "e", "n", " ", "T", "e", "c", "h", "n", "o", "l", "o", "g", "i", "e", "s">>>>,
    <<<<"A", "l", "p", "h", "a", "b", "e", "t">>,
     <<"N", "e", "x", "a", "g", "e", "n", " ", "H", "o", "l", "d", "i", "n", "g", "s">>>>,
    <<<<"F", "a", "c", "e", "b", "o", "o", "k">>,
     <<"C", "o", "n", "n", "e", "c", "t", "S", "p", "h", "e", "r", "e">>>>,
    <<<<"M", "e", "t", "a", " ", "P", "l", "a", "t", "f", "o", "r", "m", "s">>,
     <<"C", "o", "n", "n", "e", "c", "t", "S", "p", "h", "e", "r", "e", " ", "I", "n", "c">>>>,
    <<<<"A", "p", "p", "l", "e", " ", "I", "n", "c">>,
     <<"O", "r", "i", "o", "n", " ", "E", "l", "e", "c", "t", "r", "o", "n", "i", "c", "s">>>>,
    <<<<"M", "i", "c", "r", "o", "s", "o", "f", "t">>,
     <<"V", "e", "r", "t", "e", "x", " ", "S", "o", "f", "t", "w", "a", "r", "e">>>>,
    <<<<"T", "e", "s", "l", "a">>,
     <<"V", "o", "l", "t", "a", " ", "M", "o", "t", "o", "r", "s">>>>,
    <<<<"S", "p", "a", "c", "e", "X">>,
     <<"A", "e", "t", "h", "e", "r", " ", "L", "a", "u", "n", "c", "h", " ", "S", "y", "s", "t", "e", "m", "s">>>>,
    <<<<"N", "e", "t", "f", "l", "i", "x">>,
     <<"S", "t", "r", "e", "a", "m", "V", "a", "u", "l", "t">>>>,
    <<<<"W", "a", "l", "m", "a", "r", "t">>,
     <<"R", "e", "d", "f", "i", "e", "l", "d", " ", "R", "e", "t", "a", "i", "l">>>>,
    <<<<"E", "x", "x", "o", "n", "M", "o", "b", "i", "l">>,
     <<"C", "r", "e", "s", "t", "f", "i", "e", "l", "d", " ", "E", "n", "e", "r", "g", "y">>>>,
    <<<<"C", "h", "e", "v", "r", "o", "n">>,
     <<"H", "a", "r", "l", "a", "n", "d", " ", "P", "e", "t", "r", "o", "l", "e", "u", "m">>>>,
    <<<<"J", "P", "M", "o", "r", "g", "a", "n">>,
     <<"S", "t", "a", "n", "t", "o", "n", " ", "F", "i", "n", "a", "n", "c", "i", "a", "l">>>>,
    <<<<"G", "o", "l", "d", "m", "a", "n", " ", "S", "a", "c", "h", "s">>,
     <<"W", "h", "i", "t", "m", "o", "r", "e", " ", "C", "a", "p", "i", "t", "a", "l">>>>,
    <<<<"L", "o", "c", "k", "h", "e", "e", "d", " ", "M", "a", "r", "t", "i", "n">>,
     <<"H", "a", "r", "g", "r", "o", "v", "e", " ", "D", "e", "f", "e", "n", "s", "e">>>>,
    <<<<"R", "a", "y", "t", "h", "e", "o", "n">>,
     <<"A", "l", "d", "r", "i", "d", "g", "e", " ", "S", "y", "s", "t", "e", "m", "s">>>>,
    <<<<"N", "o", "r", "t", "h", "r", "o", "p", " ", "G", "r", "u", "m", "m", "a", "n">>,
     <<"V", "a", "n", "g", "u", "a", "r", "d", " ", "A", "e", "r", "o", "s", "p", "a", "c", "e">>>>,
    <<<<"G", "e", "n", "e", "r", "a", "l", " ", "M", "o", "t", "o", "r", "s">>,
     <<"C", "o", "n", "t", "i", "n", "e", "n", "t", "a", "l", " ", "M", "o", "t", "o", "r", "s">>>>,
    <<<<"F", "o", "r", "d", " ", "M", "o", "t", "o", "r">>,
     <<"H", "a", "r", "t", "f", "i", "e", "l", "d", " ", "A", "u", "t", "o", "m", "o", "t", "i", "v", "e">>>>,
    <<<<"P", "f", "i", "z", "e", "r">>,
     <<"T", "h", "o", "r", "n", "g", "a", "t", "e", " ", "P", "h", "a", "r", "m", "a", "c", "e", "u", "t", "i", "c", "a", "l", "s">>>>,
    <<<<"J", "o", "h", "n", "s", "o", "n", " ", "&", " ", "J", "o", "h", "n", "s", "o", "n">>,
     <<"M", "e", "r", "c", "e", "r", " ", "H", "e", "a", "l", "t", "h", " ", "G", "r", "o", "u", "p">>>>,
    <<<<"U", "n", "i", "t", "e", "d", "H", "e", "a", "l", "t", "h">>,
     <<"C", "r", "o", "s", "s", "f", "i", "e", "l", "d", " ", "H", "e", "a", "l", "t", "h">>>>,
    <<<<"C", "i", "t", "i", "g", "r", "o", "u", "p">>,
     <<"B", "e", "l", "m", "o", "n", "t", " ", "B", "a", "n", "k", "i", "n", "g">>>>,
    <<<<"B", "a", "n", "k", " ", "o", "f", " ", "A", "m", "e", "r", "i", "c", "a">>,
     <<"N", "a", "t", "i", "o", "n", "a", "l", " ", "M", "e", "r", "i", "d", "i", "a", "n", " ", "B", "a", "n", "k">>>>,
    <<<<"W", "e", "l", "l", "s", " ", "F", "a", "r", "g", "o">>,
     <<"P", "a", "c", "i", "f", "i", "c", " ", "S", "t", "a", "n", "d", "a", "r", "d", " ", "B", "a", "n", "k">>>>,
    <<<<"S", "h", "e", "l", "l">>,
     <<"G", "u", "l", "f", "m", "a", "r", "k", " ", "E", "n", "e", "r", "g", "y">>>>,
    <<<<"B", "P">>,
     <<"H", "a", "r", "l", "a", "n", "d", " ", "P", "e", "t", "r", "o", "l", "e", "u", "m">>>>,
    <<<<"U", "b", "e", "r">>,
     <<"S", "t", "r", "i", "d", "e", "l", "i", "n", "k">>>>,
    <<<<"L", "y", "f", "t">>,
     <<"G", "o", "W", "a", "v", "e">>>>,
    <<<<"O", "p", "e", "n", "A", "I">>,
     <<"F", "r", "o", "n", "t", "i", "e", "r", " ", "L", "a", "b", "s">>>>,
    <<<<"T", "w", "i", "t", "t", "e", "r">>,
     <<"B", "r", "o", "a", "d", "C", "a", "s", "t", " ", "S", "o", "c", "i", "a", "l">>>>,
    <<<<"T", "i", "k", "T", "o", "k">>,
     <<"C", "l", "i", "p", "S", "t", "r", "e", "a", "m">>>>,
    <<<<"D", "i", "s", "n", "e", "y">>,
     <<"C", "r", "e", "s", "c", "e", "n", "t", " ", "E", "n", "t", "e", "r", "t", "a", "i", "n", "m", "e", "n", "t">>>>,
    <<<<"C", "o", "m", "c", "a", "s", "t">>,
     <<"M", "e", "r", "i", "d", "i", "a", "n", " ", "M", "e", "d", "i", "a">>>>,
    <<<<"A", "T", "&", "T">>,
     <<"N", "o", "r", "l", "a", "n", "d", " ", "C", "o", "m", "m", "u", "n", "i", "c", "a", "t", "i", "o", "n", "s">>>>,
    <<<<"V", "e", "r", "i", "z", "o", "n">>,
     <<"C", "l", "e", "a", "r", "p", "o", "i", "n", "t", " ", "W", "i", "r", "e", "l", "e", "s", "s">>>> >>

\* does pat match text at index i?  ic is re.IGNORECASE (pat is then given
\* in lowercase), wb is a \b on either side of the pattern
PatternAt(text, pat, i, ic, wb) ==
    /\ i + Len(pat) - 1 <= Len(text)
    /\ (IF ic THEN Lower(<<text[i]>>) ELSE <<text[i]>>) = <<pat[1]>>
    /\ (IF ic THEN Lower(SubSeq(text, i, i + Len(pat) - 1))
              ELSE SubSeq(text, i, i + Len(pat) - 1)) = pat
    /\ wb => /\ (i = 1 \/ text[i - 1] \notin WordChar)
             /\ (i + Len(pat) - 1 = Len(text) \/ text[i + Len(pat)] \notin WordChar)

RECURSIVE PatternSub(_, _, _, _, _, _)
\* pattern.sub(repl, text) scanning from index i: the leftmost match at or
\* after i is replaced and the scan goes on behind it
PatternSub(text, pat, repl, i, ic, wb) ==
    LET found == {j \in i..Len(text) : PatternAt(text, pat, j, ic, wb)} IN
    IF found = {} THEN SubSeq(text, i, Len(text))
    ELSE LET m == CHOOSE j \in found : \A h \in found : j <= h IN
         SubSeq(text, i, m - 1) \o repl \o PatternSub(text, pat, repl, m + Len(pat), ic, wb)

RECURSIVE SubRange(_, _, _, _, _, _)
\* "for pattern, replacement in pairs: text = re.sub(...)" for the pairs
\* lo..hi, one after the other: the first half of them, then the second.
\* The text is evaluated (its length taken) before a pair is applied to it,
\* as the assignment in the loop does.
SubRange(text, pairs, lo, hi, ic, wb) ==
    IF Len(text) < 0 \/ lo > hi THEN text
    ELSE IF lo = hi
         THEN PatternSub(text, IF ic THEN Lower(pairs[lo][1]) ELSE pairs[lo][1],
                         pairs[lo][2], 1, ic, wb)
    ELSE LET mid == (lo + hi) \div 2 IN
         SubRange(SubRange(text, pairs, lo, mid, ic, wb), pairs, mid + 1, hi, ic, wb)

\* the loop over all the pairs of a table
SubEach(text, pairs, ic, wb) == SubRange(text, pairs, 1, Len(pairs), ic, wb)

\* acr[0].upper() + acr[1:].lower()
Mixed(acr) == <<acr[1]>> \o Lower(Tail(acr))

\* writer._fix_capitalization.  The lookahead (?='s\b|\b) after an acronym
\* holds exactly where \b holds: the acronym ends in a \w character, so a
\* following "'" is itself a word boundary.
FixCapitalization(script_text) ==
    LET a == SubEach(script_text,
                     [k \in 1..Len(acronyms) |-> <<acronyms[k], acronyms[k]>>],
                     TRUE, TRUE)
        r == SubEach(a, [k \in 1..Len(risky_acronyms) |->
                             <<Mixed(risky_acronyms[k]), risky_acronyms[k]>>],
                     FALSE, TRUE)
    IN  SubEach(r, proper_nouns, TRUE, FALSE)

\* writer._scrub_real_names: the people anywhere in the text, then the
\* companies as whole words
ScrubRealNames(script_text) ==
    SubEach(SubEach(script_text, REAL_PEOPLE_MAP, TRUE, FALSE),
            REAL_COMPANIES_MAP, TRUE, TRUE)

RECURSIVE Strip(_)
\* str.strip()
Strip(t) ==
    IF t # <<>> /\ t[1] \in Whitespace THEN Strip(Tail(t))
    ELSE IF t # <<>> /\ t[Len(t)] \in Whitespace THEN Strip(SubSeq(t, 1, Len(t) - 1))
    ELSE t

\* the texts the language model answers with: 59 words, 76 words, 60 words,
\* 75 words with whitespace around them, 65 words with a company of the
\* scrubber's table among them, 65 words with an acronym and a city in
\* lowercase and a chyron directive
WriterReplies ==
    {Plain(1, MIN_WORDS - 1),
     Plain(1, MAX_WORDS + 1),
     Plain(1, MIN_WORDS),
     <<"\n">> \o Plain(1, MAX_WORDS) \o <<" ", "\n">>,
     Plain(1, 30) \o <<" ", "B", "o", "e", "i", "n", "g", " ">> \o Plain(31, 64),
     Plain(1, 30)
        \o <<" ", "t", "h", "e", " ", "f", "b", "i", " ", "i", "n", " ",
             "n", "e", "w", " ", "y", "o", "r", "k", " ">>
        \o ChyronOpen \o <<" ", "A", "]", " ">> \o Plain(31, 60)}

\* _scrub_real_names(_fix_capitalization(t)) for the stripped replies,
\* tabulated once
PostProcessed == [t \in {Strip(r) : r \in WriterReplies} |-> ScrubRealNames(FixCapitalization(t))]

RECURSIVE Attempts(_)
\* "for attempt in range(MAX_RETRIES)" from the given attempt on: the text
\* and the spoken word count the loop ends with, and the calls it made
Attempts(attempt) ==
    UNION {LET script_text == Strip(r)
               spoken_words == CountSpokenWords(script_text)
           IN  IF (MIN_WORDS <= spoken_words /\ spoken_words <= MAX_WORDS)
                  \/ attempt = MAX_RETRIES - 1
               THEN {[script_text |-> script_text, spoken_words |-> spoken_words,
                      attempts |-> attempt + 1]}
               ELSE Attempts(attempt + 1)
           : r \in WriterReplies}

\* writer.generate_script(config, ...): every outcome, each the exception
\* that leaves the function or the fields of the script_data it returns
WriteScript(config, mdl, f) ==
    UNION {{[exc |-> g.exc,
             attempts |-> a.attempts,
             reply |-> a.script_text,
             script |-> g.script_data.script,
             word_count |-> IF g.exc = "none" THEN a.spoken_words ELSE -1,
             nonsense_injected |-> g.script_data.nonsense_injected,
             model |-> g.model, opened |-> g.opened]
            : g \in GenerateScript(PostProcessed[a.script_text], config, mdl, f)}
           : a \in Attempts(0)}

\* one call of generate_script
CallGenerateScript ==
    /\ writer.op = "none"
    /\ \E config \in GenConfigs :
       \E o \in WriteScript(config, model, file) :
          /\ reads + o.opened <= MaxReads
          /\ writer' = [op |-> "generate_script", attempts |-> o.attempts,
                        reply |-> o.reply, script |-> o.script,
                        word_count |-> o.word_count,
                        nonsense_injected |-> o.nonsense_injected, exc |-> o.exc]
          /\ model' = o.model
          /\ reads' = reads + o.opened
    /\ UNCHANGED <<file, call, pilot, loader, gen, feed, ctl, poll>>

\* the caller has taken the script_data (or handled the exception)
TakeScript ==
    /\ writer.op # "none"
    /\ writer' = NoWriter
    /\ UNCHANGED <<model, file, reads, call, pilot, loader, gen, feed, ctl, poll>>

WriterNext == CallGenerateScript \/ TakeScript

WriterSpec == Init /\ [][WriterNext]_vars

----------------------------------------------------------------------------
(* Properties of inject_nonsense *)

Called == call.op = "inject_nonsense"

Returned == Called /\ call.exc = "none"

CallSettings == SettingsOf(call.config)

\* the tokens of the argument and of the returned script, as the injector
\* tokenises them
InTokens == Tokenise(call.script)
OutTokens == Tokenise(call.ret_script)

\* C1: whenever inject_nonsense returns injected=true, the spoken word count
\* of the returned script (writer._count_spoken_words) equals that of the
\* script it was given.
C1_WordCountPreserved ==
    (Returned /\ call.injected) =>
        CountSpokenWords(call.ret_script) = CountSpokenWords(call.script)

\* C2: whether or not injection occurs, the ordered list of directive
\* strings [TAG: content] of the returned script equals that of the script
\* given, each directive verbatim.
C2_DirectivesPreserved ==
    Returned => FindTags(call.ret_script, 1) = FindTags(call.script, 1)

\* the switch of a configuration is off: enabled is false, or there is no
\* dials.nonsense.enabled entry at all
SwitchedOff(config) ==
    "enabled" \notin DOMAIN SettingsOf(config) \/ SettingsOf(config).enabled = FALSE

\* C3: with enabled false, or no dials.nonsense.enabled entry at all, a call
\* returns (S, False, None), consumes no random draw, opens no model file and
\* leaves the cache _model as it was.
C3_DisabledIsNoOp ==
    [][(call.op = "none" /\ call'.op = "inject_nonsense" /\ SwitchedOff(call'.config)) =>
          /\ call'.exc = "none"
          /\ call'.ret_script = call'.script
          /\ call'.injected = FALSE
          /\ call'.fragment = NoneVal
          /\ call'.draws = <<>>
          /\ call'.opened = 0
          /\ model' = model
          /\ reads' = reads]_vars

\* C3 witness: a call on a non-empty script under a configuration without
\* an enabled entry, while the model file is missing
C3_Witness ==
    /\ Called
    /\ "nonsense" \in DOMAIN Get(call.config, "dials", EmptyDict)
    /\ "enabled" \notin DOMAIN CallSettings
    /\ call.script # <<>>
    /\ file = "missing"

\* C4: whenever the call returns injected=false, the returned script is the
\* argument character for character and the returned fragment is None.
C4_NotInjectedIsIdentity ==
    (Returned /\ ~call.injected) =>
        /\ call.ret_script = call.script
        /\ call.fragment = NoneVal

\* C4 witness: a fragment was generated, the call found no room, and the
\* script is one that joining its tokens by single spaces would change
C4_Witness ==
    /\ Returned
    /\ ~call.injected
    /\ call.frag_len >= 1
    /\ Join(InTokens) # call.script

\* the positions (in the token list) of the spoken tokens of the argument
InSpoken == SpokenIdx(InTokens)

\* C5: when injection occurs, every replaced spoken index i satisfies
\* 6 <= i <= spokenCount - 7, and the first 6 and the last 6 spoken tokens of
\* the returned script are those of the argument.
C5_MarginRespected ==
    (Returned /\ call.injected) =>
        LET tin == InTokens
            tout == OutTokens
            sp == SpokenIdx(tin)
        IN  /\ \A i \in call.inject_at..(call.inject_at + call.frag_len - 1) :
                  6 <= i /\ i <= call.n_spoken - 7
            /\ Len(tout) = Len(tin)
            /\ Len(sp) = call.n_spoken
            /\ \A j \in 1..call.n_spoken :
                  (j <= 6 \/ j > call.n_spoken - 6) => tout[sp[j]] = tin[sp[j]]

\* C5 witness: an injection whose last replaced token is spoken token
\* spokenCount - 7 (counted from 0), next to the closing margin
C5_Witness ==
    /\ Returned
    /\ call.injected
    /\ call.frag_len >= 2
    /\ call.inject_at + call.frag_len - 1 = call.n_spoken - 7
    /\ LET sp == InSpoken IN
       OutTokens[sp[call.n_spoken - 6]] # InTokens[sp[call.n_spoken - 6]]

\* the start indexes some outcome of a call on script_text takes with a
\* fragment of frag_len words
StartsOf(script_text, config, frag_len) ==
    {o.inject_at : o \in {x \in InjectNonsense(script_text, config, <<MarkovFile>>, "ok") :
                              x.injected /\ x.frag_len = frag_len}}

\* C6: when injection occurs the start index lies in
\* [6, spokenCount - 6 - fragLen]; for the script of 30 spoken words and
\* fragLen = 3 it lies in 6..21, and every index of 6..21 is the start of
\* some outcome of the call.
C6_StartRange ==
    /\ (Returned /\ call.injected) =>
          /\ Margin <= call.inject_at
          /\ call.inject_at <= call.n_spoken - Margin - call.frag_len
          /\ (call.script = Script30 /\ call.frag_len = 3) =>
                 (call.n_spoken = 30 /\ call.inject_at \in 6..21)
    /\ (call.op = "none" /\ model # <<>>) => StartsOf(Script30, CfgAlways, 3) = 6..21

\* C6 witness: the 30-word script, a 3-word fragment, the start at the upper
\* end of the range
C6_Witness ==
    /\ Returned
    /\ call.injected
    /\ call.script = Script30
    /\ call.frag_len = 3
    /\ call.inject_at = 21

\* C7: once the switch and the gate have passed and a fragment of fragLen >= 1
\* words exists, the call returns injected=true whenever
\* spokenCount >= 2*6 + fragLen, equality included.
C7_InjectsWheneverRoom ==
    (Returned /\ call.frag_len >= 1 /\ call.n_spoken >= 2 * Margin + call.frag_len) =>
        call.injected

\* C8 as stated: on the example script a call never injects a 2-word
\* fragment, whatever the probability draw.
C8_ExampleNeverInjected ==
    (Returned /\ call.script = ExampleScript /\ call.frag_len \in {-1, 2}) =>
        (~call.injected /\ call.ret_script = call.script)

\* C8 amended: the example script has 16 spoken tokens for the injector, so a
\* 2-word fragment always finds a window: the call returns injected=true with
\* a start of 6, 7 or 8, keeps the directive, and returns injected=false only
\* when no fragment was generated (switch off or gate missed).
C8_ExampleInjected ==
    (Returned /\ call.script = ExampleScript) =>
        /\ Len(InSpoken) = 16
        /\ call.frag_len = 2 =>
              /\ call.injected
              /\ call.inject_at \in 6..8
              /\ FindTags(call.ret_script, 1) = FindTags(ExampleScript, 1)
        /\ call.frag_len = -1 => (~call.injected /\ call.ret_script = call.script)

\* C8 witness: the example script with a 2-word fragment injected at start 8
C8_Witness ==
    /\ Returned
    /\ call.script = ExampleScript
    /\ call.frag_len = 2
    /\ call.injected
    /\ call.inject_at = 8

\* the settings are well formed: 0 <= injection_chance <= 1,
\* 1 <= min_fragment <= max_fragment, temperature > 0
WellFormed(settings) ==
    /\ Get(settings, "injection_chance", 3) \in 0..20
    /\ 1 <= Get(settings, "min_fragment", 2)
    /\ Get(settings, "min_fragment", 2) <= Get(settings, "max_fragment", 4)
    /\ Get(settings, "temperature", 1) >= 1

\* C9: with a loadable model and well-formed settings the call raises no
\* exception, whatever the script.
C9_NeverRaises ==
    (Called /\ file = "ok" /\ WellFormed(CallSettings)) => call.exc = "none"

\* C10: a missing or unparseable model file never ends the batch: no
\* exception leaves generate_script, and every story so far was returned
\* with nonsense_injected false.
C10_MissingModelSkipsInjection ==
    file # "ok" =>
        /\ pilot.pc # "crashed"
        /\ \A k \in 1..Len(pilot.stories) : ~pilot.stories[k].nonsense_injected

----------------------------------------------------------------------------
(* Properties of the model cache *)

\* C11: in any sequence of generate_fragment and inject_nonsense calls, once
\* the model is loaded no step opens the file again or changes the cached
\* model, and the only change of module state a step makes is the cache
\* going from unloaded to the parsed contents of the file, by one read.
C11_LoadedOnceAndCached ==
    [][/\ model # <<>> => (model' = model /\ reads' = reads /\ call'.opened = 0)
       /\ model' # model =>
             /\ model = <<>>
             /\ model' = <<ModelFiles[file]>>
             /\ reads' = reads + 1
       /\ file' = file]_vars

\* C11 witness: a generate_fragment call that returned a fragment from the
\* cached model without opening the file, after an earlier call had loaded it
C11_Witness ==
    /\ call.op = "generate_fragment"
    /\ call.exc = "none"
    /\ call.fragment # NoneVal
    /\ call.opened = 0
    /\ reads = 1
    /\ model = <<MarkovFile>>

\* C12: when the threads of a process have each completed a first call of
\* _load_model on a readable file, however the calls interleaved, the file
\* was read exactly once and all of them obtained the same model object.
C12_ConcurrentLoadReadsOnce ==
    (file \in DOMAIN ModelFiles
       /\ \A t \in Threads : loader.calls[t] = 1 /\ loader.pc[t] = "idle") =>
        /\ reads = 1
        /\ \A t, u \in Threads : loader.got[t] = loader.got[u]

\* C13: after an attempt to load the model has failed, no later step opens
\* the file again.
C13_FailedLoadNotRetried ==
    [][(reads >= 1 /\ model = <<>> /\ call.op = "none") => reads' = reads]_vars

----------------------------------------------------------------------------
(* Properties of generate_fragment and the samplers *)

\* C14: when generate_fragment yields a fragment of zero words, the call
\* returns the script unchanged with injected=false and fragment None,
\* however long the script is.
C14_EmptyFragmentNotInjected ==
    (Returned /\ call.frag_len = 0) =>
        /\ ~call.injected
        /\ call.ret_script = call.script
        /\ call.fragment = NoneVal

\* C15: contraction repair is idempotent: repairing a repaired lowercase
\* word sequence changes nothing.
C15_FixContractionsIdempotent ==
    call.op = "_fix_contractions" =>
        FixContractions(call.run.ret) = call.run.ret

\* C15 witness: a text in which two pairs were rejoined
C15_Witness ==
    /\ call.op = "_fix_contractions"
    /\ Cardinality({i \in 1..Len(call.run.ret) : call.run.ret[i] = "'"}) = 2
    /\ Len(call.run.ret) = Len(call.run.args[1])

\* the item the claim's rule selects: the first index whose cumulative
\* adjusted weight is at least r = (num/den) * total, the last item if none
Selected(items, adj, num, den) ==
    LET hits == {i \in 1..Len(adj) : Sum(SubSeq(adj, 1, i)) * den >= num * Sum(adj)}
    IN  IF hits = {} THEN items[Len(items)]
        ELSE items[CHOOSE i \in hits : \A j \in hits : i <= j]

\* C16: for a non-empty list and a fixed draw r in [0, total), both samplers
\* return the item at the first index whose cumulative weight is at least r
\* (the last item if there is none); items [a, b] with weights [1, 3] and
\* the draw 0.9 * total give b.
C16_SamplerRule ==
    (call.op \in {"_pick_weighted", "_pick_from_options"} /\ call.exc = "none") =>
        LET items == call.run.args[1]
            weights == call.run.args[2]
            k == call.run.args[3]
            num == call.run.args[4]
            den == call.run.args[5]
        IN  /\ call.run.ret = Selected(items, Adjusted(weights, k), num, den)
            /\ (items = <<"a", "b">> /\ weights = <<1, 3>> /\ k = 1
                  /\ 10 * num = 9 * den) => call.run.ret = "b"

\* C16 witness: the example of the claim, and a draw that lands exactly on a
\* cumulative weight
C16_Witness ==
    /\ call.op = "_pick_weighted"
    /\ call.run.args = << <<"a", "b">>, <<1, 3>>, 1, 9, 10 >>
    /\ call.run.ret = "b"

\* the whitespace-separated words of the fragment a call returned
FragmentWords == Split(call.fragment, 1)

\* C17: with the default bounds min_words = 2 and max_words = 4 the string
\* generate_fragment returns has at least 2 and at most 4 words, for every
\* model and every sequence of draws.
C17_FragmentTwoToFourWords ==
    (call.op = "generate_fragment" /\ call.exc = "none"
       /\ call.run.args[1] = 2 /\ call.run.args[2] = 4) =>
        Len(FragmentWords) \in 2..4

\* C18: no word of the fragment generate_fragment returns ends in
\* sentence-ending punctuation, whichever starter pair and continuations
\* are sampled.
C18_NoEndPunctuation ==
    (call.op = "generate_fragment" /\ call.exc = "none") =>
        LET ws == FragmentWords IN
        \A i \in 1..Len(ws) : ws[i][Len(ws[i])] \notin EndPunct

\* the gate alone was passed through: one draw, no exception
GateOnly == Called /\ call.exc = "none" /\ call.draws = <<"gate">>

\* C19: with injection enabled the first draw of a call is the gate's and
\* no later draw is; a call that stops at the gate returns (S, False, None)
\* without having opened the model file, generated a fragment or tokenised
\* the script; a chance of 1.0 is never exceeded.
C19_GateComesFirst ==
    (Called /\ Enabled(CallSettings)) =>
        /\ call.draws # <<>>
        /\ call.draws[1] = "gate"
        /\ \A i \in 2..Len(call.draws) : call.draws[i] # "gate"
        /\ GateOnly =>
              /\ call.ret_script = call.script
              /\ ~call.injected
              /\ call.fragment = NoneVal
              /\ call.opened = 0
              /\ call.frag_len = -1
              /\ call.n_spoken = -1
        /\ Get(CallSettings, "injection_chance", 3) >= 20 => ~GateOnly

\* C19 witness: the 30-word script under a chance of 0 stopped at the gate
\* while the model file is readable and has never been opened
C19_Witness ==
    /\ GateOnly
    /\ call.config = CfgNever
    /\ call.script = Script30
    /\ file = "ok"
    /\ reads = 0

\* C20: every iteration of the extension loop samples from the bigram entry
\* of the last two words when that key exists, from the unigram entry of the
\* last word only when it does not, and ends the loop, appending nothing,
\* when neither key exists or the sampled word is empty once its trailing
\* punctuation is stripped; the words appended are the stripped samples and
\* none is empty.
C20_BigramPreferred ==
    (call.op = "generate_fragment" /\ call.exc = "none" /\ model # <<>>) =>
        LET m == model[1]
            run == call.run
            ns == Len(run.starter)
        IN  /\ \A j \in 1..Len(run.steps) :
                  LET s == run.steps[j]
                      w == s.before
                      last == w[Len(w)]
                      key == Key2(w[Len(w) - 1], last)
                  IN  /\ w = SubSeq(run.words, 1, ns + j - 1)
                      /\ key \in DOMAIN m.c2 =>
                            /\ s.table = "c2"
                            /\ \E o \in 1..Len(m.c2[key]) : m.c2[key][o][1] = s.sampled
                      /\ (key \notin DOMAIN m.c2 /\ last \in DOMAIN m.c1) =>
                            /\ s.table = "c1"
                            /\ \E o \in 1..Len(m.c1[last]) : m.c1[last][o][1] = s.sampled
                      /\ (key \notin DOMAIN m.c2 /\ last \notin DOMAIN m.c1) =>
                            (s.table = "none" /\ ~s.appended)
                      /\ s.appended <=> (s.table # "none" /\ RStrip(s.sampled) # <<>>)
                      /\ s.appended => run.words[ns + j] = RStrip(s.sampled)
                      /\ ~s.appended => (j = Len(run.steps) /\ Len(run.words) = ns + j - 1)
            /\ \A i \in 1..Len(run.words) : i > ns => run.words[i] # <<>>
            /\ Len(run.steps) <= IF run.target_len > ns THEN run.target_len - ns ELSE 0

\* C20 witness: a run whose first iteration took the bigram entry although
\* the last word also has a unigram entry, and whose second iteration fell
\* back to the unigram entry
C20_Witness ==
    /\ call.op = "generate_fragment"
    /\ call.exc = "none"
    /\ Len(call.run.steps) >= 2
    /\ call.run.steps[1].table = "c2"
    /\ call.run.steps[1].before[2] \in DOMAIN MarkovFile.c1
    /\ call.run.steps[2].table = "c1"
    /\ call.run.steps[2].appended

----------------------------------------------------------------------------
(* Properties of the substitution *)

\* a token is a directive when the whole of it matches [TAG: content]
IsDirective(t) == t # <<>> /\ MatchTag(t, 1) = Len(t)

RECURSIVE NonDirectiveFrom(_, _)
NonDirectiveFrom(tokens, i) ==
    IF i > Len(tokens) THEN <<>>
    ELSE IF IsDirective(tokens[i]) THEN NonDirectiveFrom(tokens, i + 1)
    ELSE <<i>> \o NonDirectiveFrom(tokens, i + 1)

\* the positions of the tokens that do not match the directive pattern
NonDirective(tokens) == NonDirectiveFrom(tokens, 1)

\* C21: when a call returns injected=true with a fragment of fragLen words,
\* there is a spoken index k such that the tokens of the returned script are
\* those of the argument except that spoken tokens k .. k+fragLen-1 are the
\* fragment's words in order, and the returned fragment is those words
\* joined by single spaces.  Spoken tokens are those that do not match the
\* directive pattern (C22).
C21_OnlyTheRunIsReplaced ==
    (Returned /\ call.injected) =>
        LET tin == InTokens
            tout == OutTokens
            sp == NonDirective(tin)
            fw == Split(call.fragment, 1)
        IN  /\ Len(fw) = call.frag_len
            /\ call.fragment = Join(fw)
            /\ Len(tout) = Len(tin)
            /\ \E k \in 0..(Len(sp) - call.frag_len) :
                  \A p \in 1..Len(tin) :
                      IF \E j \in 1..call.frag_len : sp[k + j] = p
                      THEN tout[p] = fw[CHOOSE j \in 1..call.frag_len : sp[k + j] = p]
                      ELSE tout[p] = tin[p]

\* C22: the tokens the injector counts as spoken, for the margin and the
\* window, are exactly the tokens that do not match the directive pattern;
\* a bracketed token that is no directive, such as [sic], is among them.
C22_SpokenMeansNotDirective ==
    (Called /\ call.n_spoken >= 0) =>
        LET tin == InTokens IN
        /\ call.n_spoken = Len(NonDirective(tin))
        /\ SpokenIdx(tin) = NonDirective(tin)

\* C23: the weighted sampler is never called on an empty list: on a model
\* with an empty starters list generate_fragment takes a guarded path and
\* no IndexError leaves it.
C23_EmptyStartersGuarded ==
    (call.op = "generate_fragment" /\ model # <<>> /\ model[1].s = <<>>) =>
        call.exc = "none"

----------------------------------------------------------------------------
(* Properties of the heavy-nonsense schedule *)

\* the positions of the stories of a finished batch that were made heavy
HeavyStories == {k \in 1..Len(pilot.stories) : pilot.stories[k].nonsense_heavy}

\* C24: a batch of run_pilot with count >= 1 that has run to its end has
\* exactly one heavy story, and that story is not story 0, the featured one.
C24_OneHeavyNeverFirst ==
    (pilot.pc = "done" /\ pilot.count >= 1) =>
        /\ Cardinality(HeavyStories) = 1
        /\ ~pilot.stories[1].nonsense_heavy

----------------------------------------------------------------------------
(* Properties of the video status poll *)

\* the responses on which the poll returns at once
PollFinal == {"completed_url", "completed_no_url", "failed"}

\* C30: _poll_video_status makes at most MAX_POLL_ATTEMPTS status requests
\* whatever the responses and request errors are, and cannot go on after the
\* last attempt; it returns a URL only on a completed response with a
\* video_url, returns None at once on "failed" and on completed without a
\* URL, and returns None when the attempts are exhausted.
C30_PollBoundedAndExact ==
    /\ poll.requests <= MAX_POLL_ATTEMPTS
    /\ poll.pc = "polling" =>
          /\ poll.attempt = poll.requests
          /\ poll.last \notin PollFinal
    /\ poll.pc = "returned" =>
          /\ poll.ret \in {NoneVal, VideoUrl}
          /\ poll.ret = VideoUrl <=> poll.last = "completed_url"
          /\ poll.last \notin PollFinal => poll.requests = MAX_POLL_ATTEMPTS
    /\ poll.last \in PollFinal => poll.pc = "returned"

\* the poll has returned None after MAX_POLL_ATTEMPTS requests that all came
\* back in progress or in error
C30_Witness ==
    /\ poll.pc = "returned"
    /\ poll.ret = NoneVal
    /\ poll.requests = MAX_POLL_ATTEMPTS
    /\ poll.last = "request_error"

----------------------------------------------------------------------------
(* Properties of the dashboard *)

\* C27: after the load at import and any sequence of push_script and
\* push_hourly_summary calls, completed or aborted by an exception,
\* recent_stories holds at most StoriesCap (20) entries.
C27_RecentStoriesCapped == Len(feed.recent_stories) <= StoriesCap

\* C28: whatever the interleaving of concurrent start requests, at most one
\* generator thread is alive at any time.
C28_AtMostOneGenerator == Cardinality({t \in GenIds : IsAlive(t)}) <= 1

\* C29: once a start request has returned ok and no stop request has been
\* made since, a generator thread is alive, and stays alive: the generator
\* is never left stopped, also when the start came right after a stop,
\* before the old thread had exited.
C29_StartedStaysRunning == ctl.ok_start => \E t \in GenIds : IsAlive(t)

\* C25: in the generator loop a story is made heavy exactly when it is the
\* 6th story generated since the last heavy one (or since the start), and
\* whenever an iteration is over, also one that caught an exception, the
\* counter stories_since_nonsense is in 0..5.
C25_EverySixthStoryHeavy ==
    /\ gen.pc \in {"test", "story", "written"} =>
          gen.stories_since_nonsense \in 0..(HeavyEvery - 1)
    /\ \A k \in 1..Len(gen.heavy) : gen.heavy[k] <=> (k % HeavyEvery = 0)

----------------------------------------------------------------------------
(* Properties of generate_script *)

\* C26: the word_count of the dict generate_script returns is the spoken
\* word count of the script of that dict, the text after capitalization
\* fixing, name scrubbing and nonsense injection.
C26_WordCountIsOfFinalScript ==
    (writer.op = "generate_script" /\ writer.exc = "none") =>
        writer.word_count = CountSpokenWords(writer.script)

====
